---- MODULE Spec2Model ----
(***************************************************************************)
(* Verification model of the tool-call broker of DeepCanvasAI:             *)
(*   js/tools/tool-manager.js         ToolManager (registry + broker)      *)
(*   js/mcp/mcp-client.js             MCPClient (personalization path)     *)
(*   js/integrations/tool-manager.js  ToolManager (connector tool source)  *)
(*   js/integrations/composio-client.js  ComposioClient (connection table) *)
(*   js/integrations/connection-handlers.js  OAuth completion listener     *)
(***************************************************************************)
EXTENDS Integers, Sequences, FiniteSets, TLC

(***************************************************************************)
(* Bounds                                                                  *)
(***************************************************************************)
\* number of tool calls that can be outstanding at once on one call path
MaxCalls == 2
\* number of entries the local tool registry may hold
MaxTools == 2

(***************************************************************************)
(* JavaScript values                                                       *)
(*   a value is [t, v]: t = "prim" with v the primitive's token, or        *)
(*   t = "obj" with v the token of the object's `output` property          *)
(*   ("absent" when the object has no such property)                       *)
(***************************************************************************)
Prim(v) == [t |-> "prim", v |-> v]
Obj(v) == [t |-> "obj", v |-> v]
JsUndefined == Prim("undefined")
JsNull == Prim("null")

\* the primitives JavaScript treats as false in a boolean context
FalsyTokens == {"undefined", "null", "0", "false", "empty"}
PrimTokens == FalsyTokens \cup {"text"}

\* what a tool's execute(), a handler or the connector executor may resolve to
Values ==
    {Prim("undefined"), Prim("0"), Prim("text"),
     Obj("absent"), Obj("0"), Obj("null"), Obj("text")}

\* what a tool's execute(), a handler or the connector executor may throw:
\* an Error carrying a message, a bare string, or null
Thrown ==
    {[t |-> "Error", m |-> "boom"], [t |-> "string", m |-> "oops"],
     [t |-> "null", m |-> ""]}

\* reading a property of null or undefined raises a TypeError
IsNullish(value) == value.t = "prim" /\ value.v \in {"undefined", "null"}

\* the value of `value.output` for a value that is not nullish
OutputOf(value) ==
    IF value.t = "obj" /\ value.v # "absent" THEN Prim(value.v) ELSE JsUndefined

Truthy(value) == value.t = "obj" \/ value.v \notin FalsyTokens

(***************************************************************************)
(* Error slot of a result envelope: null, undefined, or a message          *)
(***************************************************************************)
ErrNull == [t |-> "null", name |-> <<>>, m |-> ""]
ErrUndefined == [t |-> "undefined", name |-> <<>>, m |-> ""]
ErrMessage(m) == [t |-> "message", name |-> <<>>, m |-> m]
\* the template string `Tool not found: ${name}`
ErrToolNotFound(name) == [t |-> "message", name |-> name, m |-> "Tool not found: "]

\* `error.message` raises a TypeError when the caught value is null
MessageThrows(e) == e.t = "null"

\* `error.message` of a caught value that is not null: a string has none
MessageOf(e) == IF e.t = "Error" THEN ErrMessage(e.m) ELSE ErrUndefined

\* the message of the TypeError raised by a property read on null/undefined
TypeErrorMessage == "Cannot read properties"

(***************************************************************************)
(* Call names are sequences of characters                                  *)
(***************************************************************************)
Lower == {"a", "b", "x"}
Names ==
    {<<"a", "_", "x">>, <<"a", "b", "_", "x">>, <<"x">>,
     <<"A", "_", "x">>, <<"_", "x">>}
Apps == {<<"a">>, <<"a", "b">>}
NoMatch == <<>>

Ids == {"id1", "id2"}

\* request arguments: an object, the JSON text of an object, or a text
\* that is not JSON
ArgObjects == {"o1"}
Args ==
    [form : {"object", "string"}, obj : ArgObjects]
        \cup {[form |-> "string", obj |-> "notjson"]}

(***************************************************************************)
(* Local tools: what getDeclaration() yields ("none": no such method)      *)
(***************************************************************************)
ToolIds == {"t1", "t2", "t3"}
DeclaredName(tool) ==
    CASE tool = "t1" -> "googleSearch"
      [] tool = "t2" -> "googleSearch"
      [] OTHER -> "none"

VARIABLES
    connections,    \* ComposioClient.connections: app -> entry
    tools,          \* ToolManager.tools: Map kept in insertion order
    composioTools,  \* ToolManager.composioTools: Map kept in insertion order
    pendingComposio,\* registerComposioTool calls awaiting getTools()
    lastRegister,   \* the latest registerTool call and the registry before it
    calls,          \* handleToolCall invocations of the broker, by slot
    mcpTools,       \* MCPClient.tools: the names that have a handler
    mcpCalls,       \* MCPClient.handleToolCall invocations, by slot
    initialized,    \* connector ToolManager.initialized
    toolCache,      \* connector ToolManager.toolCache: cache key -> tool list
    getToolsCalls,  \* connector ToolManager.getTools invocations, by slot
    forApps,        \* connector ToolManager.getToolsForApps invocation
    contextId,      \* SecondMeAdapter.contextId
    sends,          \* SecondMeAdapter.sendMessage invocations, by caller
    toolResponses,  \* responses carrying tool calls received so far
    listener,       \* the MCPClient 'message' listener's batch
    chat,           \* EnhancedChatManager.handleMessage invocation
    replies,        \* the tool_results messages posted to the backend
    handlerRuns,    \* handler invocations per tool call of a response
    localStorage,   \* the localStorage item 'composio_connections'
    page,           \* the page's startup phase
    eventListeners, \* SecondMeAdapter.eventListeners[event], in push order
    emitted,        \* the latest emitEvent(event, data) call
    video,          \* the latest Veo2Service.processVertexResponse call
    now,            \* Date.now(), in clock ticks
    waiting,        \* ConnectionsAPI.waitUntilActive invocation
    disconnecting,  \* ComposioClient.disconnect invocation
    integration,    \* SecondMeIntegration and its initialize invocations
    brain,          \* BrainManager and the two brain slot elements
    savedBrains     \* the localStorage item 'secondMe_savedBrains'

vars == <<connections, tools, composioTools, pendingComposio, lastRegister,
          calls, mcpTools, mcpCalls, initialized, toolCache, getToolsCalls,
          forApps, contextId, sends, toolResponses, listener, chat, replies,
          handlerRuns, localStorage, page, eventListeners, emitted, video,
          now, waiting, disconnecting, integration, brain, savedBrains>>
registryVars == <<tools, composioTools, pendingComposio, lastRegister>>
brokerVars == <<connections, registryVars, calls>>
mcpVars == <<mcpTools, mcpCalls>>
sourceVars == <<initialized, toolCache, getToolsCalls>>
aggregateVars == <<forApps>>
\* the components that the broker, the MCP client and getTools never touch
adapterVars == <<contextId, sends, toolResponses, listener, chat, replies,
                 handlerRuns>>
storageVars == <<localStorage, page>>
eventVars == <<eventListeners, emitted>>
videoVars == <<video>>
pollVars == <<now, waiting>>
\* the components added to the page besides the ones above
disconnectVars == <<disconnecting>>
integrationVars == <<integration>>
brainVars == <<brain, savedBrains>>
extraVars == <<pollVars, disconnectVars, integrationVars, brainVars>>
\* the added components but one
exceptPollVars == <<disconnectVars, integrationVars, brainVars>>
exceptDisconnectVars == <<pollVars, integrationVars, brainVars>>
exceptIntegrationVars == <<pollVars, disconnectVars, brainVars>>
exceptBrainVars == <<pollVars, disconnectVars, integrationVars>>
\* everything but the broker, the MCP client, the connector source and the
\* stored connection table
serviceVars == <<aggregateVars, adapterVars, eventVars, videoVars, extraVars>>
componentVars == <<serviceVars, storageVars>>
\* the variables of every component but the added ones
coreVars == <<brokerVars, mcpVars, sourceVars, aggregateVars, adapterVars,
              eventVars, videoVars, storageVars>>

Slots == 1..MaxCalls

\* occurrences are counted as none, one, several
Counted(n) == IF n < 2 THEN n + 1 ELSE n

(***************************************************************************)
(* Connection table                                                        *)
(***************************************************************************)
NoConnection == [present |-> FALSE, connected |-> FALSE, id |-> "none"]
ConnectionIds == {"c1"}

\* ComposioClient.isConnected
isConnected(appName) ==
    IF ~connections[appName].present
    THEN FALSE
    ELSE connections[appName].connected = TRUE

\* composioAPI.isConnected: the connection-state table's `connected` flag;
\* an app the table does not know is not connected
composioAPI_isConnected(appName) ==
    appName \in DOMAIN connections /\ isConnected(appName)

\* localStorage.getItem('composio_connections'): null, or the JSON text,
\* kept as the entries it spells out
NoItem == [saved |-> FALSE, entries |-> {}]

\* JSON.stringify(this.connections): one entry per own key of the table
Stringify(table) ==
    [saved |-> TRUE,
     entries |-> {<<a, table[a].connected, table[a].id>> :
                     a \in {b \in DOMAIN table : table[b].present}}]

\* JSON.parse(savedConnections) as the table it yields
Parse(item) ==
    [a \in Apps |->
        IF \E e \in item.entries : e[1] = a
        THEN LET e == CHOOSE e \in item.entries : e[1] = a
             IN  [present |-> TRUE, connected |-> e[2], id |-> e[3]]
        ELSE NoConnection]

\* loadConnections(): the saved table, or {} when nothing is saved
loadConnections(item) ==
    IF item.saved THEN Parse(item) ELSE [a \in Apps |-> NoConnection]

\* The page.  pc: "ready" once composioClient is initialized and the
\* message listener is set up.  wasConnected: the apps that were connected
\* when the page was last reloaded and have not been disconnected since.
PageReady == [pc |-> "ready", wasConnected |-> {}]

(***************************************************************************)
(* ToolManager (js/tools/tool-manager.js): registry                        *)
(***************************************************************************)
RegisteredNames(reg) == {reg[i].name : i \in DOMAIN reg}

\* Map.get: the tool stored under name ("none" when absent)
ToolsGet(reg, name) ==
    IF name \in RegisteredNames(reg)
    THEN (CHOOSE e \in {reg[i] : i \in DOMAIN reg} : e.name = name).tool
    ELSE "none"

NoRegister == [name |-> <<>>, tool |-> "none", before |-> <<>>]

\* registerTool without the has() guard: Map.set replaces the stored tool
registerTool_Overwrite(reg, name, toolInstance) ==
    IF name \in RegisteredNames(reg)
    THEN [i \in DOMAIN reg |->
             IF reg[i].name = name THEN [name |-> name, tool |-> toolInstance]
             ELSE reg[i]]
    ELSE Append(reg, [name |-> name, tool |-> toolInstance])

registerTool(reg, name, toolInstance) ==
    IF name \in RegisteredNames(reg)
    THEN reg
    ELSE Append(reg, [name |-> name, tool |-> toolInstance])

\* Map.set on the composioTools map: a new key goes last, a known key keeps
\* its place
ComposioSet(map, appName, toolList) ==
    IF \E i \in DOMAIN map : map[i].app = appName
    THEN [i \in DOMAIN map |->
             IF map[i].app = appName THEN [app |-> appName, tools |-> toolList]
             ELSE map[i]]
    ELSE Append(map, [app |-> appName, tools |-> toolList])

\* the declarations of the local tools from position i on, skipping a tool
\* without getDeclaration
RECURSIVE LocalDeclarations(_, _)
LocalDeclarations(reg, i) ==
    IF i > Len(reg) THEN <<>>
    ELSE (IF DeclaredName(reg[i].tool) = "none" THEN <<>>
          ELSE <<DeclaredName(reg[i].tool)>>) \o LocalDeclarations(reg, i + 1)

\* tool.function of every connector tool, app by app, from position i on
RECURSIVE ComposioDeclarations(_, _)
ComposioDeclarations(map, i) ==
    IF i > Len(map) THEN <<>>
    ELSE map[i].tools \o ComposioDeclarations(map, i + 1)

getToolDeclarations(reg, map) ==
    LocalDeclarations(reg, 1) \o ComposioDeclarations(map, 1)

\* what composioAPI.getTools(appName) may resolve to: the function names
ConnectorToolLists == {<<>>, <<"a_send">>}

(***************************************************************************)
(* ToolManager (js/tools/tool-manager.js): handleToolCall                  *)
(***************************************************************************)
\* name.match(/^([a-z]+)_/): scan the leading run of lowercase letters
RECURSIVE LowerRun(_, _)
LowerRun(name, i) ==
    IF i <= Len(name) /\ name[i] \in Lower THEN LowerRun(name, i + 1) ELSE i - 1

AppNameMatch(name) ==
    LET k == LowerRun(name, 1)
    IN  IF k >= 1 /\ k < Len(name) /\ name[k + 1] = "_"
        THEN SubSeq(name, 1, k)
        ELSE NoMatch

\* routing on the name pattern alone, without asking whether the app is
\* connected
UseConnector_PrefixOnly(name) == AppNameMatch(name) # NoMatch

\* appNameMatch && composioAPI.isConnected(appNameMatch[1])
UseConnector(name) ==
    AppNameMatch(name) # NoMatch /\ composioAPI_isConnected(AppNameMatch(name))

\* local lookup tried before the connector routing
ResolveTarget_LocalFirst(name) ==
    IF ToolsGet(tools, name) # "none" THEN "local"
    ELSE IF UseConnector(name) THEN "connector"
    ELSE "notfound"

\* where the call goes: the connector executor, a local tool, or nowhere
ResolveTarget(name) ==
    IF UseConnector(name) THEN "connector"
    ELSE IF ToolsGet(tools, name) = "none" THEN "notfound"
    ELSE "local"

\* an envelope that forgets to echo the request's id
Envelope_NoId(output, id, error) ==
    [output |-> output, id |-> "none", error |-> error]

Envelope(output, id, error) == [output |-> output, id |-> id, error |-> error]

\* output: result.output || result
ConnectorOutput(result) ==
    IF Truthy(OutputOf(result)) THEN OutputOf(result) ELSE result

\* the arguments handed to the executor
PassedArgs(args) == args

NoResult == Envelope(JsUndefined, "none", ErrUndefined)
NoArgs == [form |-> "object", obj |-> "none"]

\* One invocation of handleToolCall.  name, id, args: the request.  target,
\* passedName, passed, tool: the executor invoked and what it was handed.
\* prefixConnected, localAtCall: the connection table and the registry as
\* they were when the call arrived.  raw: what the executor resolved to.
\* failed: the call ended in a not-found or in a catch block.
IdleCall ==
    [pc |-> "idle", name |-> <<>>, id |-> "none", args |-> NoArgs,
     target |-> "none", passedName |-> <<>>, passed |-> NoArgs, tool |-> "none",
     prefixConnected |-> FALSE, localAtCall |-> "none",
     raw |-> JsUndefined, failed |-> FALSE, result |-> NoResult]

(***************************************************************************)
(* MCPClient (js/mcp/mcp-client.js)                                        *)
(***************************************************************************)
McpNames == {<<"x">>, <<"a", "_", "x">>}

\* JSON.parse raises a SyntaxError on a text that is not JSON
JSONParseThrows(args) == args.obj = "notjson"

\* JSON.parse of the JSON text of an object: that object
JSONParse(args) == [form |-> "object", obj |-> args.obj]

\* typeof args === 'string' ? JSON.parse(args) : args
ParsedArgs(args) == IF args.form = "string" THEN JSONParse(args) ELSE args

McpResult(toolCallId, name, status, result, error) ==
    [toolCallId |-> toolCallId, name |-> name, status |-> status,
     result |-> result, error |-> error]

\* error.message || String(error) of a caught value that is not null
McpMessageOf(e) == ErrMessage(e.m)

\* One invocation of MCPClient.handleToolCall.  invoked: the handler was
\* called.  outcome: how the handler ended.
McpIdle ==
    [pc |-> "idle", name |-> <<>>, id |-> "none", args |-> NoArgs,
     passed |-> NoArgs, invoked |-> FALSE, outcome |-> "none",
     result |-> McpResult("none", <<>>, "none", JsUndefined, ErrUndefined)]

\* the catch block of MCPClient.handleToolCall
McpCaught(call, e) ==
    IF MessageThrows(e)
    THEN [call EXCEPT !.pc = "threw"]
    ELSE [call EXCEPT !.pc = "returned",
              !.result = McpResult(call.id, call.name, "error", JsUndefined,
                                   McpMessageOf(e))]

\* MCPClient.registerTool: this.tools.set(name, {description, handler, schema})
McpRegisterTool(name) ==
    /\ name \notin mcpTools
    /\ mcpTools' = mcpTools \cup {name}
    /\ UNCHANGED <<componentVars, brokerVars, mcpCalls, sourceVars>>

\* MCPClient.handleToolCall up to its await of the handler
McpStart(name, id, args) ==
    LET req == [McpIdle EXCEPT !.name = name, !.id = id, !.args = args]
    IN  IF name \notin mcpTools
        THEN [req EXCEPT !.pc = "returned",
                 !.result = McpResult(id, name, "error", JsUndefined,
                                      ErrToolNotFound(name))]
        ELSE IF args.form = "string" /\ JSONParseThrows(args)
        THEN McpCaught(req, [t |-> "Error", m |-> "SyntaxError"])
        ELSE [req EXCEPT !.pc = "executing", !.invoked = TRUE,
                         !.passed = ParsedArgs(args)]

McpHandleToolCall(s, name, id, args) ==
    /\ mcpCalls[s].pc = "idle"
    /\ mcpCalls' = [mcpCalls EXCEPT ![s] = McpStart(name, id, args)]
    /\ UNCHANGED <<componentVars, brokerVars, mcpTools, sourceVars>>

\* tool.handler(parsedArgs) resolves with result
McpHandlerReturns(s, result) ==
    /\ mcpCalls[s].pc = "executing"
    /\ mcpCalls' = [mcpCalls EXCEPT ![s] =
            [mcpCalls[s] EXCEPT !.pc = "returned", !.outcome = "returned",
                !.result = McpResult(mcpCalls[s].id, mcpCalls[s].name,
                                     "success", result, ErrUndefined)]]
    /\ UNCHANGED <<componentVars, brokerVars, mcpTools, sourceVars>>

\* tool.handler(parsedArgs) throws e
McpHandlerThrows(s, e) ==
    /\ mcpCalls[s].pc = "executing"
    /\ mcpCalls' = [mcpCalls EXCEPT ![s] =
            McpCaught([mcpCalls[s] EXCEPT !.outcome = "threw"], e)]
    /\ UNCHANGED <<componentVars, brokerVars, mcpTools, sourceVars>>

\* the caller takes the settled promise
McpCollect(s) ==
    /\ mcpCalls[s].pc \in {"returned", "threw"}
    /\ mcpCalls' = [mcpCalls EXCEPT ![s] = McpIdle]
    /\ UNCHANGED <<componentVars, brokerVars, mcpTools, sourceVars>>

(***************************************************************************)
(* ToolManager (js/integrations/tool-manager.js): connector tool source    *)
(***************************************************************************)
\* composioIntegration.isConnected: the connection-state table's flag
composioIntegration_isConnected(appName) ==
    appName \in DOMAIN connections /\ isConnected(appName)

\* Array.prototype.join: the items with sep between them
RECURSIVE Join(_, _)
Join(list, sep) ==
    IF list = <<>> THEN <<>>
    ELSE IF Len(list) = 1 THEN list[1]
    ELSE list[1] \o <<sep>> \o Join(Tail(list), sep)

\* `${appName}_${actions.join(',')}_${tags.join(',')}`
CacheKey(appName, actions, tags) ==
    appName \o <<"_">> \o Join(actions, ",") \o <<"_">> \o Join(tags, ",")

EmptyCache == [k \in {} |-> <<>>]

\* a write that stores the list short of its last tool
CachePut_Torn(cache, key, toolList) ==
    [k \in DOMAIN cache \cup {key} |->
        IF k = key THEN SubSeq(toolList, 1, Len(toolList) - 1) ELSE cache[k]]

\* this.toolCache[cacheKey] = tools
CachePut(cache, key, toolList) ==
    [k \in DOMAIN cache \cup {key} |-> IF k = key THEN toolList ELSE cache[k]]

\* the filters getTools is called with
ActionLists == {<<>>, <<(<<"x">>)>>}
TagLists == {<<>>}

\* One invocation of getTools.  connectedAtCall, connectedAtCheck,
\* cachedAtCheck: the connection table and the cache as they were when the
\* call arrived and when its connection check ran.  backendCalled: the call
\* reached composioIntegration.getTools.  fromCache: it returned the cached
\* list.
GetToolsIdle ==
    [pc |-> "idle", app |-> <<>>, actions |-> <<>>, tags |-> <<>>,
     connectedAtCall |-> FALSE, connectedAtCheck |-> FALSE,
     cachedAtCheck |-> FALSE, backendCalled |-> FALSE, fromCache |-> FALSE,
     result |-> <<>>, error |-> "none"]

ConnectedNow(appName) ==
    connections[appName].present /\ connections[appName].connected

\* getTools with the cache consulted before the connection check
AfterInitialize_CacheFirst(call) ==
    LET cacheKey == CacheKey(call.app, call.actions, call.tags)
        seen == [call EXCEPT !.connectedAtCheck = ConnectedNow(call.app),
                             !.cachedAtCheck = cacheKey \in DOMAIN toolCache]
    IN  IF cacheKey \in DOMAIN toolCache
        THEN [seen EXCEPT !.pc = "returned", !.fromCache = TRUE,
                          !.result = toolCache[cacheKey]]
        ELSE IF ~composioIntegration_isConnected(call.app)
        THEN [seen EXCEPT !.pc = "threw", !.error = "Not connected"]
        ELSE [seen EXCEPT !.pc = "fetching", !.backendCalled = TRUE]

\* getTools that never consults the cache: every connected call goes to the
\* backend
AfterInitialize_NoCache(call) ==
    LET cacheKey == CacheKey(call.app, call.actions, call.tags)
        seen == [call EXCEPT !.connectedAtCheck = ConnectedNow(call.app),
                             !.cachedAtCheck = cacheKey \in DOMAIN toolCache]
    IN  IF ~composioIntegration_isConnected(call.app)
        THEN [seen EXCEPT !.pc = "threw", !.error = "Not connected"]
        ELSE [seen EXCEPT !.pc = "fetching", !.backendCalled = TRUE]

\* getTools from its connection check to its return, its throw or its await
\* of composioIntegration.getTools
AfterInitialize(call) ==
    LET cacheKey == CacheKey(call.app, call.actions, call.tags)
        seen == [call EXCEPT !.connectedAtCheck = ConnectedNow(call.app),
                             !.cachedAtCheck = cacheKey \in DOMAIN toolCache]
    IN  IF ~composioIntegration_isConnected(call.app)
        THEN [seen EXCEPT !.pc = "threw", !.error = "Not connected"]
        ELSE IF cacheKey \in DOMAIN toolCache
        THEN [seen EXCEPT !.pc = "returned", !.fromCache = TRUE,
                          !.result = toolCache[cacheKey]]
        ELSE [seen EXCEPT !.pc = "fetching", !.backendCalled = TRUE]

\* getTools(appName, actions, tags) up to its first await
GetTools(s, appName, actions, tags) ==
    /\ getToolsCalls[s].pc = "idle"
    /\ LET call == [GetToolsIdle EXCEPT !.app = appName, !.actions = actions,
                        !.tags = tags,
                        !.connectedAtCall = ConnectedNow(appName)]
       IN  getToolsCalls' = [getToolsCalls EXCEPT ![s] =
               IF ~initialized
               THEN [call EXCEPT !.pc = "initializing"]
               ELSE AfterInitialize(call)]
    /\ UNCHANGED <<componentVars, brokerVars, mcpVars, initialized, toolCache>>

\* `await this.initialize()` returns: true once composioIntegration is
\* initialized (ok), false when its initialization threw
InitializeReturns(s, ok) ==
    /\ getToolsCalls[s].pc = "initializing"
    /\ initialized' = (initialized \/ ok)
    /\ getToolsCalls' = [getToolsCalls EXCEPT ![s] = AfterInitialize(getToolsCalls[s])]
    /\ UNCHANGED <<componentVars, brokerVars, mcpVars, toolCache>>

\* composioIntegration.getTools resolves with toolList
FetchReturns(s, toolList) ==
    /\ getToolsCalls[s].pc = "fetching"
    /\ toolCache' = CachePut(toolCache,
            CacheKey(getToolsCalls[s].app, getToolsCalls[s].actions,
                     getToolsCalls[s].tags), toolList)
    /\ getToolsCalls' = [getToolsCalls EXCEPT ![s] =
            [getToolsCalls[s] EXCEPT !.pc = "returned", !.result = toolList]]
    /\ UNCHANGED <<componentVars, brokerVars, mcpVars, initialized>>

\* composioIntegration.getTools rejects: logged and thrown again
FetchThrows(s) ==
    /\ getToolsCalls[s].pc = "fetching"
    /\ getToolsCalls' = [getToolsCalls EXCEPT ![s] =
            [getToolsCalls[s] EXCEPT !.pc = "threw", !.error = "backend"]]
    /\ UNCHANGED <<componentVars, brokerVars, mcpVars, initialized, toolCache>>

\* clearCache()
ClearCache ==
    /\ toolCache' = EmptyCache
    /\ UNCHANGED <<componentVars, brokerVars, mcpVars, initialized, getToolsCalls>>

\* the caller takes the settled promise
GetToolsCollect(s) ==
    /\ getToolsCalls[s].pc \in {"returned", "threw"}
    /\ getToolsCalls' = [getToolsCalls EXCEPT ![s] = GetToolsIdle]
    /\ UNCHANGED <<componentVars, brokerVars, mcpVars, initialized, toolCache>>

(***************************************************************************)
(* ToolManager (js/integrations/tool-manager.js): getToolsForApps          *)
(***************************************************************************)
\* the app lists getToolsForApps is called with
AppNameLists == {<<(<<"a">>)>>, <<(<<"a">>), (<<"a", "b">>)>>,
                 <<(<<"a", "b">>), (<<"a">>)>>}

\* what the backend may resolve to for an aggregated call
AggregateToolLists == {<<"a_send">>, <<"b_get", "b_put">>}

\* Array.prototype.flat() on an array of tool arrays
RECURSIVE Flat(_)
Flat(arrays) ==
    IF arrays = <<>> THEN <<>> ELSE Head(arrays) \o Flat(Tail(arrays))

\* One invocation of getToolsForApps.  connectedAtMap[i]: appNames[i] was
\* connected when the list was mapped.  toolArrays: what Promise.all
\* resolved to.
ForAppsIdle ==
    [pc |-> "idle", appNames |-> <<>>, connectedAtMap |-> <<>>,
     toolArrays |-> <<>>, result |-> <<>>, error |-> "none"]

\* this.getTools(appName) up to its first await, with the manager's
\* initialized flag as it stands
GetToolsStart(appName, init) ==
    LET call == [GetToolsIdle EXCEPT !.app = appName,
                                     !.connectedAtCall = ConnectedNow(appName)]
    IN  IF ~init THEN [call EXCEPT !.pc = "initializing"]
        ELSE AfterInitialize(call)

\* appNames.map(...): a connected app gets a getTools call (slot i for
\* appNames[i]), an unconnected one Promise.resolve([])
MapApps(call, init) ==
    /\ \A s \in Slots : getToolsCalls[s].pc = "idle"
    /\ getToolsCalls' = [s \in Slots |->
            IF s <= Len(call.appNames) /\ composioIntegration_isConnected(call.appNames[s])
            THEN GetToolsStart(call.appNames[s], init)
            ELSE GetToolsIdle]
    /\ forApps' = [call EXCEPT !.pc = "waiting",
            !.connectedAtMap = [i \in DOMAIN call.appNames |->
                                   composioIntegration_isConnected(call.appNames[i])]]

\* getToolsForApps(appNames) up to its first await
GetToolsForApps(appNames) ==
    /\ forApps.pc = "idle"
    /\ LET call == [ForAppsIdle EXCEPT !.appNames = appNames]
       IN  IF ~initialized
           THEN /\ forApps' = [call EXCEPT !.pc = "initializing"]
                /\ UNCHANGED getToolsCalls
           ELSE MapApps(call, initialized)
    /\ UNCHANGED <<extraVars, storageVars, eventVars, videoVars, adapterVars, brokerVars, mcpVars, initialized, toolCache>>

\* `await this.initialize()` of getToolsForApps returns
ForAppsInitializeReturns(ok) ==
    /\ forApps.pc = "initializing"
    /\ initialized' = (initialized \/ ok)
    /\ MapApps(forApps, initialized \/ ok)
    /\ UNCHANGED <<extraVars, storageVars, eventVars, videoVars, adapterVars, brokerVars, mcpVars, toolCache>>

\* the slots of the getTools calls that the mapped list started
Started(call) ==
    {i \in DOMAIN call.appNames : call.connectedAtMap[i]}

\* Promise.all resolves: every getTools call has returned
ForAppsResolves ==
    /\ forApps.pc = "waiting"
    /\ \A i \in Started(forApps) : getToolsCalls[i].pc = "returned"
    /\ LET toolArrays == [i \in DOMAIN forApps.appNames |->
                             IF forApps.connectedAtMap[i]
                             THEN getToolsCalls[i].result ELSE <<>>]
       IN  forApps' = [forApps EXCEPT !.pc = "returned",
                           !.toolArrays = toolArrays,
                           !.result = Flat(toolArrays)]
    /\ getToolsCalls' = [s \in Slots |-> GetToolsIdle]
    /\ UNCHANGED <<extraVars, storageVars, eventVars, videoVars, adapterVars, brokerVars, mcpVars, initialized, toolCache>>

\* Promise.all rejects with the error of a getTools call that threw; the
\* calls still in flight run on
ForAppsRejects(i) ==
    /\ forApps.pc = "waiting"
    /\ i \in Started(forApps)
    /\ getToolsCalls[i].pc = "threw"
    /\ forApps' = [forApps EXCEPT !.pc = "threw",
                       !.error = getToolsCalls[i].error]
    /\ getToolsCalls' = [s \in Slots |->
            IF getToolsCalls[s].pc \in {"returned", "threw"}
            THEN GetToolsIdle ELSE getToolsCalls[s]]
    /\ UNCHANGED <<extraVars, storageVars, eventVars, videoVars, adapterVars, brokerVars, mcpVars, initialized, toolCache>>

\* the caller takes the settled promise
ForAppsCollect ==
    /\ forApps.pc \in {"returned", "threw"}
    /\ forApps' = ForAppsIdle
    /\ UNCHANGED <<extraVars, storageVars, eventVars, videoVars, adapterVars, brokerVars, mcpVars, sourceVars>>

(***************************************************************************)
(* SecondMeAdapter (js/integrations/second-me-adapter.js): sendMessage     *)
(***************************************************************************)
\* responses carrying tool calls that one run receives at most
MaxToolResponses == 2

\* who awaits a sendMessage call: SecondMeMemory's caller, the chat manager,
\* the MCP client's listener
Callers == {"mem", "chat", "mcp"}
ContextIds == {"ctx1", "ctx2"}

\* the id of the i-th tool call of the rid-th response that carries calls
ToolCallId(rid, i) == "r" \o ToString(rid) \o "c" \o ToString(i)
AllToolCallIds ==
    {ToolCallId(r, i) : r \in 1..MaxToolResponses, i \in 1..MaxCalls}

\* content.toolCalls[i] of response rid
ToolCall(rid, i) ==
    [name |-> <<"x">>, id |-> ToolCallId(rid, i),
     args |-> [form |-> "object", obj |-> "o1"]]

\* a message handed to sendMessage.  rid: the response a tool_results
\* message answers
Message(type, action, options, results, rid) ==
    [type |-> type, action |-> action, options |-> options,
     results |-> results, rid |-> rid]
NoMessage == Message("none", "none", <<>>, <<>>, 0)

\* the parsed body of a response: rid = 0 and n = 0 when it has no toolCalls
NoData == [rid |-> 0, n |-> 0]

\* One invocation of sendMessage.  given: the options its caller was
\* handed.  posts: the POST /message requests issued.  ctx: the contextId
\* of the request body.  data: the response.
SendIdle ==
    [pc |-> "idle", msg |-> NoMessage, given |-> <<>>, posts |-> 0,
     ctx |-> "none", data |-> NoData]

\* sendMessage(message) up to its first await: initialize() when there is
\* no contextId, the POST otherwise
SendStart(msg, given) ==
    IF contextId = "none"
    THEN [SendIdle EXCEPT !.pc = "initializing", !.msg = msg, !.given = given]
    ELSE [SendIdle EXCEPT !.pc = "posting", !.msg = msg, !.given = given,
                          !.posts = 1, !.ctx = contextId]

\* the log of tool_results messages after send has reached its POST
LogPost(send) ==
    IF send.pc = "posting" /\ send.msg.type = "tool_results"
    THEN Append(replies, [rid |-> send.msg.rid, results |-> send.msg.results])
    ELSE replies

\* a failed request that is issued again instead of being reported
AfterPostFails_Retry(send) == [send EXCEPT !.posts = @ + 1]

\* the catch block of sendMessage: emit 'error', throw
AfterPostFails(send) == [send EXCEPT !.pc = "threw"]

\* the listener awaits its sendMessage inside try/catch and does nothing
\* after it: its call is over as soon as it settles
Settle(c, send) == IF c = "mcp" /\ send.pc # "posting" THEN SendIdle ELSE send

(***************************************************************************)
(* MCPClient (js/mcp/mcp-client.js): the 'message' listener                *)
(***************************************************************************)
ListenerIdle == [pc |-> "idle", rid |-> 0, n |-> 0]

\* handlerRuns after the calls of response rid in slots have started
CountRuns(started) ==
    [id \in AllToolCallIds |->
        handlerRuns[id] +
        Cardinality({s \in DOMAIN started :
                        started[s].invoked /\ started[s].id = id})]

\* emitEvent('message', {direction: 'response', content: data}) reaches the
\* listener: content.toolCalls.map(toolCall => this.handleToolCall(toolCall))
\* starts every call of the batch, call i in slot i
OnMessage(c, data) ==
    IF data.n > 0
    THEN LET started == [s \in 1..data.n |->
                            McpStart(ToolCall(data.rid, s).name,
                                     ToolCall(data.rid, s).id,
                                     ToolCall(data.rid, s).args)]
         IN  /\ mcpCalls' = [s \in Slots |->
                    IF s <= data.n THEN started[s] ELSE mcpCalls[s]]
             /\ handlerRuns' = CountRuns(started)
             /\ listener' = [pc |-> "running", rid |-> data.rid, n |-> data.n]
    ELSE /\ listener' = IF c = "mcp" THEN ListenerIdle ELSE listener
         /\ UNCHANGED <<mcpCalls, handlerRuns>>

\* data.contextId of a successful /init
AdapterInitReturns(c, id) ==
    /\ sends[c].pc = "initializing"
    /\ contextId' = id
    /\ LET send == [sends[c] EXCEPT !.pc = "posting", !.posts = 1, !.ctx = id]
       IN  /\ sends' = [sends EXCEPT ![c] = send]
           /\ replies' = LogPost(send)
    /\ UNCHANGED <<extraVars, storageVars, eventVars, videoVars, brokerVars, mcpVars, sourceVars, aggregateVars,
                   toolResponses, listener, chat, handlerRuns>>

\* /init fails: initialize() throws into sendMessage, which has not
\* entered its try block
AdapterInitFails(c) ==
    /\ sends[c].pc = "initializing"
    /\ sends' = [sends EXCEPT ![c] = Settle(c, [sends[c] EXCEPT !.pc = "threw"])]
    /\ listener' = IF c = "mcp" THEN ListenerIdle ELSE listener
    /\ UNCHANGED <<extraVars, storageVars, eventVars, videoVars, brokerVars, mcpVars, sourceVars, aggregateVars, contextId,
                   toolResponses, chat, replies, handlerRuns>>

\* POST /message answers with a body carrying n tool calls
PostReturns(c, n) ==
    /\ sends[c].pc = "posting"
    /\ n > 0 => /\ toolResponses < MaxToolResponses
                /\ listener.pc = "idle" \/ c = "mcp"
                /\ \A s \in 1..n : mcpCalls[s].pc = "idle"
    /\ LET data == [rid |-> IF n > 0 THEN toolResponses + 1 ELSE 0, n |-> n]
       IN  /\ toolResponses' = IF n > 0 THEN toolResponses + 1 ELSE toolResponses
           /\ OnMessage(c, data)
           /\ sends' = [sends EXCEPT ![c] =
                  Settle(c, [sends[c] EXCEPT !.pc = "returned", !.data = data])]
    /\ UNCHANGED <<extraVars, storageVars, eventVars, videoVars, brokerVars, mcpTools, sourceVars, aggregateVars, contextId,
                   chat, replies>>

\* POST /message fails (network error or !response.ok)
PostFails(c) ==
    /\ sends[c].pc = "posting"
    /\ LET send == AfterPostFails(sends[c])
       IN  /\ sends' = [sends EXCEPT ![c] = Settle(c, send)]
           /\ listener' = IF c = "mcp" /\ send.pc # "posting"
                          THEN ListenerIdle ELSE listener
    /\ UNCHANGED <<extraVars, storageVars, eventVars, videoVars, brokerVars, mcpVars, sourceVars, aggregateVars, contextId,
                   toolResponses, chat, replies, handlerRuns>>

\* a combinator that resolves with the first promise to resolve
PromiseAll_Any(n) == \E s \in 1..n : mcpCalls[s].pc = "returned"

\* await Promise.all(promises of calls 1..n) resolves once each of them has
PromiseAll(n) == \A s \in 1..n : mcpCalls[s].pc = "returned"

\* Promise.all resolves: the listener sends the results of the batch, in
\* the order of the calls, as one tool_results message
ListenerResolves ==
    /\ listener.pc = "running"
    /\ PromiseAll(listener.n)
    /\ sends["mcp"].pc = "idle"
    /\ LET results == [s \in 1..listener.n |-> mcpCalls[s].result]
           send == SendStart(Message("tool_results", "none", <<>>, results,
                                     listener.rid), <<>>)
       IN  /\ sends' = [sends EXCEPT !["mcp"] = send]
           /\ replies' = LogPost(send)
    /\ listener' = [listener EXCEPT !.pc = "sending"]
    /\ mcpCalls' = [s \in Slots |->
            IF s <= listener.n /\ mcpCalls[s].pc \in {"returned", "threw"}
            THEN McpIdle ELSE mcpCalls[s]]
    /\ UNCHANGED <<extraVars, storageVars, eventVars, videoVars, brokerVars, mcpTools, sourceVars, aggregateVars, contextId,
                   toolResponses, chat, handlerRuns>>

\* Promise.all rejects with a handleToolCall that threw: the catch block
\* logs it and nothing is sent; the calls still in flight run on
ListenerRejects(i) ==
    /\ listener.pc = "running"
    /\ i \in 1..listener.n
    /\ mcpCalls[i].pc = "threw"
    /\ listener' = ListenerIdle
    /\ mcpCalls' = [s \in Slots |->
            IF s <= listener.n /\ mcpCalls[s].pc \in {"returned", "threw"}
            THEN McpIdle ELSE mcpCalls[s]]
    /\ UNCHANGED <<extraVars, storageVars, eventVars, videoVars, brokerVars, mcpTools, sourceVars, aggregateVars, contextId,
                   sends, toolResponses, chat, replies, handlerRuns>>

(***************************************************************************)
(* SecondMeMemory (js/memory/second-me-memory.js)                          *)
(***************************************************************************)
OptionFields == {"limit", "offset", "sortBy", "sortDirection", "filter"}

\* the values a caller may give a field; "0" and "" are the falsy ones
OptionValues(field) ==
    CASE field = "limit" -> {"5", "0"}
      [] field = "offset" -> {"20", "0"}
      [] field = "sortBy" -> {"name", ""}
      [] field = "sortDirection" -> {"asc"}
      [] OTHER -> {"recent"}

\* the options objects retrieveMemories is called with ({} when omitted)
OptionObjects ==
    UNION {{o \in [fields -> {"5", "0", "20", "name", "", "asc", "recent"}] :
                \A f \in fields : o[f] \in OptionValues(f)} :
           fields \in SUBSET OptionFields}

OptionFalsy(value) == value \in {"0", ""}

DefaultOptions ==
    [f \in {"limit", "offset", "sortBy", "sortDirection"} |->
        CASE f = "limit" -> "10"
          [] f = "offset" -> "0"
          [] f = "sortBy" -> "timestamp"
          [] OTHER -> "desc"]

\* options.f || default, for each of the four fields
OrDefaults(options) ==
    [f \in DOMAIN DefaultOptions |->
        IF f \in DOMAIN options /\ ~OptionFalsy(options[f])
        THEN options[f] ELSE DefaultOptions[f]]

\* the four `||` defaults without the spread of options
RetrievalOptions_NoSpread(options) == OrDefaults(options)

\* {limit: options.limit || 10, ..., ...options}
RetrievalOptions(options) ==
    [f \in DOMAIN DefaultOptions \cup DOMAIN options |->
        IF f \in DOMAIN options THEN options[f] ELSE OrDefaults(options)[f]]

\* storeMemory(memoryType, data) up to its await of adapter.sendMessage
StoreMemory ==
    /\ sends["mem"].pc = "idle"
    /\ LET send == SendStart(Message("memory", "store", <<>>, <<>>, 0), <<>>)
       IN  /\ sends' = [sends EXCEPT !["mem"] = send]
           /\ replies' = LogPost(send)
    /\ UNCHANGED <<extraVars, storageVars, eventVars, videoVars, brokerVars, mcpVars, sourceVars, aggregateVars, contextId,
                   toolResponses, listener, chat, handlerRuns>>

\* retrieveMemories(query, options) up to its await of adapter.sendMessage
RetrieveMemories(options) ==
    /\ sends["mem"].pc = "idle"
    /\ LET send == SendStart(Message("memory", "retrieve",
                                     RetrievalOptions(options), <<>>, 0),
                             options)
       IN  /\ sends' = [sends EXCEPT !["mem"] = send]
           /\ replies' = LogPost(send)
    /\ UNCHANGED <<extraVars, storageVars, eventVars, videoVars, brokerVars, mcpVars, sourceVars, aggregateVars, contextId,
                   toolResponses, listener, chat, handlerRuns>>

\* the caller takes what the memory call returned or rethrew
MemoryCollect ==
    /\ sends["mem"].pc \in {"returned", "threw"}
    /\ sends' = [sends EXCEPT !["mem"] = SendIdle]
    /\ UNCHANGED <<extraVars, storageVars, eventVars, videoVars, brokerVars, mcpVars, sourceVars, aggregateVars, contextId,
                   toolResponses, listener, chat, replies, handlerRuns>>

(***************************************************************************)
(* EnhancedChatManager (js/chat/enhanced-chat-manager.js): handleMessage   *)
(***************************************************************************)
\* the slot of the chat manager's own, sequential handleToolCall calls
ChatSlot == MaxCalls

\* pc # "idle" is isProcessingMessage.  rid, n: the response being
\* processed.  k: the tool call awaited.  results: toolResults.
\* dropped: the user messages that arrived since and were not processed.
ChatIdle == [pc |-> "idle", rid |-> 0, n |-> 0, k |-> 0, results |-> <<>>,
             dropped |-> 0]

\* who a chat message is from
Senders == {"user", "assistant"}

\* a guard that looks at the sender only
Accepts_AnyTime(sender, isProcessingMessage) == sender = "user"

\* sender === 'user' && !this.isProcessingMessage
Accepts(sender, isProcessingMessage) == sender = "user" /\ ~isProcessingMessage

\* handleMessage(event) up to the await in memory.storeMemory; a message
\* that is not accepted is left alone
ChatHandleMessage(sender) ==
    /\ IF Accepts(sender, chat.pc # "idle")
       THEN /\ chat' = [ChatIdle EXCEPT !.pc = "storing"]
            /\ LET send == SendStart(Message("memory", "store", <<>>, <<>>, 0), <<>>)
               IN  /\ sends' = [sends EXCEPT !["chat"] = send]
                   /\ replies' = LogPost(send)
       ELSE /\ chat' = IF sender = "user"
                       THEN [chat EXCEPT !.dropped = Counted(@)]
                       ELSE chat
            /\ UNCHANGED <<sends, replies>>
    /\ UNCHANGED <<extraVars, storageVars, eventVars, videoVars, brokerVars, mcpVars, sourceVars, aggregateVars, contextId,
                   toolResponses, listener, handlerRuns>>

\* storeMemory returned: secondMeAdapter.sendMessage(message, {...})
ChatStored ==
    /\ chat.pc = "storing"
    /\ sends["chat"].pc = "returned"
    /\ chat' = [chat EXCEPT !.pc = "asking"]
    /\ LET send == SendStart(Message("text", "none", <<>>, <<>>, 0), <<>>)
       IN  /\ sends' = [sends EXCEPT !["chat"] = send]
           /\ replies' = LogPost(send)
    /\ UNCHANGED <<extraVars, storageVars, eventVars, videoVars, brokerVars, mcpVars, sourceVars, aggregateVars, contextId,
                   toolResponses, listener, handlerRuns>>

\* an awaited sendMessage threw: catch, emit 'error', finally
ChatCaught ==
    /\ chat.pc \in {"storing", "asking", "replying"}
    /\ sends["chat"].pc = "threw"
    /\ chat' = ChatIdle
    /\ sends' = [sends EXCEPT !["chat"] = SendIdle]
    /\ UNCHANGED <<extraVars, storageVars, eventVars, videoVars, brokerVars, mcpVars, sourceVars, aggregateVars, contextId,
                   toolResponses, listener, replies, handlerRuns>>

\* the chat manager's handleToolCall of call k of its response
ChatCall(rid, k) ==
    McpStart(ToolCall(rid, k).name, ToolCall(rid, k).id, ToolCall(rid, k).args)

ChatRuns(rid, k) ==
    [id \in AllToolCallIds |->
        handlerRuns[id] +
        (IF ChatCall(rid, k).invoked /\ id = ToolCallId(rid, k) THEN 1 ELSE 0)]

\* the response arrived: without tool calls handleMessage finishes, with
\* tool calls the loop awaits mcpClient.handleToolCall of the first one
ChatAnswered ==
    /\ chat.pc = "asking"
    /\ sends["chat"].pc = "returned"
    /\ sends' = [sends EXCEPT !["chat"] = SendIdle]
    /\ LET data == sends["chat"].data
       IN  IF data.n > 0
           THEN /\ mcpCalls[ChatSlot].pc = "idle"
                /\ chat' = [chat EXCEPT !.pc = "calling", !.rid = data.rid,
                                         !.n = data.n, !.k = 1]
                /\ mcpCalls' = [mcpCalls EXCEPT ![ChatSlot] = ChatCall(data.rid, 1)]
                /\ handlerRuns' = ChatRuns(data.rid, 1)
           ELSE /\ chat' = ChatIdle
                /\ UNCHANGED <<mcpCalls, handlerRuns>>
    /\ UNCHANGED <<extraVars, storageVars, eventVars, videoVars, brokerVars, mcpTools, sourceVars, aggregateVars, contextId,
                   toolResponses, listener, replies>>

\* what the loop pushes for a settled call: its result, or the entry of the
\* inner catch block, which has no toolCallId
ChatEntry(call) ==
    IF call.pc = "returned" THEN call.result
    ELSE McpResult("undefined", call.name, "error", JsUndefined,
                   ErrMessage(TypeErrorMessage))

\* call k settled: the loop goes on to call k + 1, or the results are sent
\* as one tool_results message
ChatCallSettled ==
    /\ chat.pc = "calling"
    /\ mcpCalls[ChatSlot].pc \in {"returned", "threw"}
    /\ LET results == Append(chat.results, ChatEntry(mcpCalls[ChatSlot]))
       IN  IF chat.k < chat.n
           THEN /\ chat' = [chat EXCEPT !.k = @ + 1, !.results = results]
                /\ mcpCalls' = [mcpCalls EXCEPT
                       ![ChatSlot] = ChatCall(chat.rid, chat.k + 1)]
                /\ handlerRuns' = ChatRuns(chat.rid, chat.k + 1)
                /\ UNCHANGED <<sends, replies>>
           ELSE LET send == SendStart(Message("tool_results", "none", <<>>,
                                              results, chat.rid), <<>>)
                IN  /\ chat' = [chat EXCEPT !.pc = "replying", !.results = results]
                    /\ mcpCalls' = [mcpCalls EXCEPT ![ChatSlot] = McpIdle]
                    /\ sends' = [sends EXCEPT !["chat"] = send]
                    /\ replies' = LogPost(send)
                    /\ UNCHANGED handlerRuns
    /\ UNCHANGED <<extraVars, storageVars, eventVars, videoVars, brokerVars, mcpTools, sourceVars, aggregateVars, contextId,
                   toolResponses, listener>>

\* the tool_results message was answered: handleMessage finishes
ChatReplied ==
    /\ chat.pc = "replying"
    /\ sends["chat"].pc = "returned"
    /\ chat' = ChatIdle
    /\ sends' = [sends EXCEPT !["chat"] = SendIdle]
    /\ UNCHANGED <<extraVars, storageVars, eventVars, videoVars, brokerVars, mcpVars, sourceVars, aggregateVars, contextId,
                   toolResponses, listener, replies, handlerRuns>>

(***************************************************************************)
(* SecondMeAdapter, SecondMeIntegration: addEventListener,                 *)
(* removeEventListener, emitEvent                                          *)
(***************************************************************************)
\* listeners registered for one event at most
MaxListeners == 3

\* the callbacks: one that returns, one that throws an Error, one that
\* removes itself when called, one that throws null
Listeners == {"returns", "throws", "once", "throwsNull"}
ListenerThrows(callback) == callback \in {"throws", "throwsNull"}

\* this.eventListeners[event].filter(cb => cb !== callback)
RECURSIVE Without(_, _)
Without(listeners, callback) ==
    IF listeners = <<>> THEN <<>>
    ELSE (IF Head(listeners) = callback THEN <<>> ELSE <<Head(listeners)>>)
         \o Without(Tail(listeners), callback)

\* One emitEvent call.  registered: the listeners of the event when it was
\* called.  log: the callbacks it invoked, in order.  threw: it threw.
NoEmit == [called |-> FALSE, registered |-> <<>>, log |-> <<>>, threw |-> FALSE]

\* forEach without the try/catch: the first listener that throws ends the
\* loop and emitEvent throws
RECURSIVE Invoke_NoCatch(_, _)
Invoke_NoCatch(listeners, i) ==
    IF i > Len(listeners) THEN [log |-> <<>>, threw |-> FALSE]
    ELSE IF ListenerThrows(listeners[i])
    THEN [log |-> <<listeners[i]>>, threw |-> TRUE]
    ELSE LET rest == Invoke_NoCatch(listeners, i + 1)
         IN  [log |-> <<listeners[i]>> \o rest.log, threw |-> rest.threw]

\* forEach(callback => { try { callback(data) } catch (error) { ... } })
\* over the array as it was when forEach began, from position i on
RECURSIVE Invoke(_, _)
Invoke(listeners, i) ==
    IF i > Len(listeners) THEN [log |-> <<>>, threw |-> FALSE]
    ELSE LET rest == Invoke(listeners, i + 1)
         IN  [log |-> <<listeners[i]>> \o rest.log, threw |-> rest.threw]

addEventListener(callback) ==
    /\ Len(eventListeners) < MaxListeners
    /\ eventListeners' = Append(eventListeners, callback)
    /\ UNCHANGED <<extraVars, storageVars, aggregateVars, adapterVars, videoVars,
                   brokerVars, mcpVars, sourceVars, emitted>>

removeEventListener(callback) ==
    /\ eventListeners' = Without(eventListeners, callback)
    /\ UNCHANGED <<extraVars, storageVars, aggregateVars, adapterVars, videoVars,
                   brokerVars, mcpVars, sourceVars, emitted>>

\* emitEvent(event, data); a "once" callback that ran has removed itself
emitEvent ==
    /\ LET outcome == Invoke(eventListeners, 1)
       IN  /\ emitted' = [called |-> TRUE, registered |-> eventListeners,
                          log |-> outcome.log, threw |-> outcome.threw]
           /\ eventListeners' =
                  IF \E i \in DOMAIN outcome.log : outcome.log[i] = "once"
                  THEN Without(eventListeners, "once") ELSE eventListeners
    /\ UNCHANGED <<extraVars, storageVars, aggregateVars, adapterVars, videoVars,
                   brokerVars, mcpVars, sourceVars>>

(***************************************************************************)
(* Veo2Service (js/video/veo2-service.js): processVertexResponse           *)
(***************************************************************************)
\* parts of a candidate's content at most
MaxParts == 3

\* a part: without a video field, with a video object that has no uri
\* field, with video.uri set to a URI or to the empty string
Part(hasVideo, uri) == [video |-> hasVideo, uri |-> uri]
Parts ==
    {Part(FALSE, "absent"), Part(TRUE, "absent"), Part(TRUE, ""),
     Part(TRUE, "u1"), Part(TRUE, "u2")}

\* a response: candidates is [] (or missing), or candidates[0] has no
\* content.parts, or it has these parts
VertexResponse(candidates, hasParts, parts) ==
    [candidates |-> candidates, hasParts |-> hasParts, parts |-> parts]
VertexResponses ==
    {VertexResponse(0, FALSE, <<>>), VertexResponse(1, FALSE, <<>>)} \cup
    {VertexResponse(1, TRUE, p) :
        p \in UNION {[1..n -> Parts] : n \in 0..MaxParts}}

VideoError(m) == [ok |-> FALSE, videoUrl |-> "none", error |-> m]

\* content.parts.find(part => part.video): the index of the first part
\* whose video field is truthy, 0 when there is none
RECURSIVE Find(_, _)
Find(parts, i) ==
    IF i > Len(parts) THEN 0
    ELSE IF parts[i].video THEN i
    ELSE Find(parts, i + 1)

processVertexResponse(vertexResponse) ==
    IF vertexResponse.candidates = 0
    THEN VideoError("No candidates returned in response")
    ELSE IF ~vertexResponse.hasParts \/ Len(vertexResponse.parts) = 0
    THEN VideoError("No parts found in candidate content")
    ELSE LET k == Find(vertexResponse.parts, 1)
         IN  IF k = 0 \/ vertexResponse.parts[k].uri \in {"absent", ""}
             THEN VideoError("No video URL found in response")
             ELSE [ok |-> TRUE, videoUrl |-> vertexResponse.parts[k].uri,
                   error |-> "none"]

NoVideoCall ==
    [called |-> FALSE, response |-> VertexResponse(0, FALSE, <<>>),
     out |-> VideoError("none")]

ProcessVertexResponse(vertexResponse) ==
    /\ video' = [called |-> TRUE, response |-> vertexResponse,
                 out |-> processVertexResponse(vertexResponse)]
    /\ UNCHANGED <<extraVars, storageVars, aggregateVars, adapterVars, eventVars,
                   brokerVars, mcpVars, sourceVars>>

(***************************************************************************)
(* ComposioClient.disconnect (part_001), step by step                      *)
(***************************************************************************)
\* everything but the client's table, its stored copy, the page and the
\* disconnect call
nonClientVars == <<registryVars, calls, mcpVars, sourceVars, aggregateVars,
                   adapterVars, eventVars, videoVars, exceptDisconnectVars>>

\* One invocation of disconnect(appName).  id: connection.id as read before
\* the deletion.  success, error: the object returned.
DisconnectIdle ==
    [pc |-> "idle", app |-> <<>>, id |-> "none", success |-> FALSE,
     error |-> "none"]

\* delete this.connections[appName] left out
deleteEntry_Keep(table, appName) == table

\* delete this.connections[appName]
deleteEntry(table, appName) == [table EXCEPT ![appName] = NoConnection]

\* the try block of disconnect up to its await: no entry or no id throws
\* into the catch block, as does reading this.sdk.connections while the
\* SDK client was never created
DisconnectTry(call, table, sdk) ==
    IF ~table[call.app].present \/ table[call.app].id = "none"
    THEN [call EXCEPT !.pc = "returned", !.success = FALSE,
                      !.error = "No connection ID found"]
    ELSE IF ~sdk
    THEN [call EXCEPT !.pc = "returned", !.success = FALSE,
                      !.error = "TypeError"]
    ELSE [call EXCEPT !.pc = "deleting", !.id = table[call.app].id]

\* disconnect(appName) up to its first await: initialize() when the client
\* is not initialized, the deletion otherwise
DisconnectStart(app) ==
    /\ disconnecting.pc = "idle"
    /\ page.pc \in {"ready", "lazy", "failed"}
    /\ LET call == [DisconnectIdle EXCEPT !.app = app]
       IN  disconnecting' =
               IF page.pc = "failed"
               THEN [call EXCEPT !.pc = "initializing"]
               ELSE DisconnectTry(call, connections, TRUE)
    /\ UNCHANGED <<coreVars, exceptDisconnectVars>>

\* `await this.initialize()` of disconnect returns: the SDK loaded and the
\* saved table was loaded (ok), or it did not and initialize returned false
DisconnectInitReturns(ok) ==
    /\ disconnecting.pc = "initializing"
    /\ page.pc = "failed"
    /\ connections' = IF ok THEN loadConnections(localStorage) ELSE connections
    /\ page' = [page EXCEPT !.pc = IF ok THEN "lazy" ELSE "failed"]
    /\ disconnecting' = DisconnectTry(disconnecting, connections', ok)
    /\ UNCHANGED <<nonClientVars, localStorage>>

\* sdk.connections.delete resolves: the entry is deleted, the table saved
\* and {success: true, message} returned
DeleteReturns ==
    /\ disconnecting.pc = "deleting"
    /\ connections' = deleteEntry(connections, disconnecting.app)
    /\ localStorage' = Stringify(connections')
    /\ page' = [page EXCEPT !.wasConnected = @ \ {disconnecting.app}]
    /\ disconnecting' = [disconnecting EXCEPT !.pc = "returned", !.success = TRUE]
    /\ UNCHANGED nonClientVars

\* sdk.connections.delete rejects: the catch block returns
\* {success: false, error: error.message}
DeleteFails ==
    /\ disconnecting.pc = "deleting"
    /\ disconnecting' = [disconnecting EXCEPT !.pc = "returned",
                            !.success = FALSE, !.error = "backend"]
    /\ UNCHANGED <<coreVars, exceptDisconnectVars>>

\* the caller takes the returned object
DisconnectCollect ==
    /\ disconnecting.pc = "returned"
    /\ disconnecting' = DisconnectIdle
    /\ UNCHANGED <<coreVars, exceptDisconnectVars>>

(***************************************************************************)
(* SecondMeIntegration (js/integrations/second-me-integration.js):         *)
(* initialize, as invoked by the startup script                            *)
(***************************************************************************)
\* the invocations of secondMeIntegration.initialize: by the readyState
\* fallback of the startup script, by its DOMContentLoaded handler, and by
\* any caller thereafter
Invocations == {"fallback", "domContentLoaded", "later"}

\* One invocation of initialize(options).  chatManager: options.chatManager
\* is given.  created: it has created and begun to initialize an adapter.
\* registered: it has called registerVeo2Tools.  result: what it returned.
InvocationIdle ==
    [pc |-> "idle", chatManager |-> FALSE, created |-> FALSE,
     registered |-> FALSE, result |-> FALSE]

\* the integration after its constructor
IntegrationNew ==
    [initialized |-> FALSE, calls |-> [v \in Invocations |-> InvocationIdle]]

\* if (this.initialized) return true
InitializeGuard(i) == i.initialized

\* initialize(options) up to its await of this.adapter.initialize()
IntegrationInitialize(v, chatManager) ==
    /\ integration.calls[v].pc = "idle"
    /\ v = "domContentLoaded" => integration.calls["fallback"].pc # "idle"
    /\ v = "later" => integration.calls["domContentLoaded"].pc # "idle"
    /\ integration' = [integration EXCEPT !.calls[v] =
            IF InitializeGuard(integration)
            THEN [InvocationIdle EXCEPT !.pc = "returned", !.result = TRUE,
                                        !.chatManager = chatManager]
            ELSE [InvocationIdle EXCEPT !.pc = "initializing", !.created = TRUE,
                                        !.chatManager = chatManager]]
    /\ UNCHANGED <<coreVars, exceptIntegrationVars>>

\* this.adapter.initialize() returns: the MCP client and the memory are
\* created and registerVeo2Tools(this.mcpClient) is awaited
IntegrationAdapterReady(v) ==
    /\ integration.calls[v].pc = "initializing"
    /\ integration' = [integration EXCEPT !.calls[v].pc = "registering",
                                          !.calls[v].registered = TRUE]
    /\ UNCHANGED <<coreVars, exceptIntegrationVars>>

\* this.adapter.initialize() or registerVeo2Tools throws: the catch block
\* emits 'error' and returns false
IntegrationCaught(v) ==
    /\ integration.calls[v].pc \in {"initializing", "registering"}
    /\ integration' = [integration EXCEPT !.calls[v].pc = "returned",
                                          !.calls[v].result = FALSE]
    /\ UNCHANGED <<coreVars, exceptIntegrationVars>>

\* the end of initialize: this.initialized = true, emit 'initialized',
\* return true
Initialized(i, v) ==
    [i EXCEPT !.initialized = TRUE, !.calls[v].pc = "returned",
              !.calls[v].result = TRUE]

\* registerVeo2Tools returns: with a chat manager given the enhanced chat
\* manager is created and its initialize() awaited
IntegrationRegistered(v) ==
    /\ integration.calls[v].pc = "registering"
    /\ integration' = IF integration.calls[v].chatManager
                      THEN [integration EXCEPT !.calls[v].pc = "enhancing"]
                      ELSE Initialized(integration, v)
    /\ UNCHANGED <<coreVars, exceptIntegrationVars>>

\* enhancedChatManager.initialize() returns (true or false; it catches what
\* it throws)
IntegrationEnhanced(v) ==
    /\ integration.calls[v].pc = "enhancing"
    /\ integration' = Initialized(integration, v)
    /\ UNCHANGED <<coreVars, exceptIntegrationVars>>

(***************************************************************************)
(* BrainManager (js/integrations/brain-manager.js)                         *)
(***************************************************************************)
BrainSlots == {"slot1", "slot2"}
\* the ids of the active brain the backend may report
BrainIds == {"b1", "b2"}

\* The manager and the page.  brains[slot]: the id of the saved brain, or
\* "null".  active[slot]: the slot's element carries the class 'active'.
\* saving[slot]: a saveBrainToSlot(slot) awaits the backend.  activating: an
\* activateBrain awaits the backend, its saveBrainsToStorage() still to come
\* (activations that overlap are taken together: each of them saves the
\* same item).
BrainNew ==
    [isInitialized |-> FALSE,
     brains |-> [slot \in BrainSlots |-> "null"],
     activeSlot |-> "null",
     active |-> [slot \in BrainSlots |-> FALSE],
     saving |-> [slot \in BrainSlots |-> FALSE],
     activating |-> FALSE]

\* localStorage.getItem('secondMe_savedBrains'): null, or what
\* JSON.stringify({brains, activeSlot}) spelled out
NoBrainItem ==
    [saved |-> FALSE, brains |-> [slot \in BrainSlots |-> "null"],
     activeSlot |-> "null"]

\* saveBrainsToStorage()
saveBrainsToStorage(b) ==
    [saved |-> TRUE, brains |-> b.brains, activeSlot |-> b.activeSlot]

\* updateBrainSlotUI(slotId), as far as the class 'active' goes
updateBrainSlotUI(b, slotId) ==
    [b EXCEPT !.active[slotId] =
        IF b.brains[slotId] # "null" THEN b.activeSlot = slotId ELSE FALSE]

\* activateBrain(slotId) up to its await: with a slot active the class is
\* removed from the element of slotId, then slotId becomes the active slot
\* and its element gets the class
activateBrain(b, slotId) ==
    LET removed == IF b.activeSlot # "null"
                   THEN [b EXCEPT !.active[slotId] = FALSE]
                   ELSE b
    IN  [removed EXCEPT !.activeSlot = slotId, !.active[slotId] = TRUE]

\* deactivateCurrentBrain(), short of its saveBrainsToStorage()
deactivateCurrentBrain(b) ==
    IF b.activeSlot = "null" THEN b
    ELSE [b EXCEPT !.active[b.activeSlot] = FALSE, !.activeSlot = "null"]

\* clearBrainSlot(slotId), short of its saveBrainsToStorage()
clearBrainSlot(b, slotId) ==
    LET deactivated == IF b.activeSlot = slotId
                       THEN deactivateCurrentBrain(b) ELSE b
    IN  updateBrainSlotUI([deactivated EXCEPT !.brains[slotId] = "null"], slotId)

\* loadSavedBrains() on the manager b: the saved item is taken over, both
\* slots are drawn and the slot that was active is activated without
\* telling the backend, which saves the item again
loadSavedBrains(b, item) ==
    IF ~item.saved THEN b
    ELSE LET loaded == [b EXCEPT !.brains = item.brains,
                                 !.activeSlot = item.activeSlot]
             drawn == updateBrainSlotUI(updateBrainSlotUI(loaded, "slot1"), "slot2")
         IN  IF drawn.activeSlot # "null" /\ drawn.brains[drawn.activeSlot] # "null"
             THEN activateBrain(drawn, drawn.activeSlot)
             ELSE drawn

\* brainManager.initialize()
BrainInitialize ==
    /\ ~brain.isInitialized
    /\ brain' = [loadSavedBrains(brain, savedBrains) EXCEPT !.isInitialized = TRUE]
    /\ savedBrains' = IF /\ savedBrains.saved
                         /\ brain'.activeSlot # "null"
                         /\ brain'.brains[brain'.activeSlot] # "null"
                      THEN saveBrainsToStorage(brain')
                      ELSE savedBrains
    /\ UNCHANGED <<coreVars, exceptBrainVars>>

\* a click on a slot: a saved brain is activated (up to the await of
\* sendMessage), an empty slot starts saveBrainToSlot (up to the await of
\* retrieveMemories)
ClickSlot(slotId) ==
    /\ brain.isInitialized
    /\ brain' = IF brain.brains[slotId] # "null"
                THEN [activateBrain(brain, slotId) EXCEPT !.activating = TRUE]
                ELSE [brain EXCEPT !.saving[slotId] = TRUE]
    /\ UNCHANGED <<coreVars, exceptBrainVars, savedBrains>>

\* retrieveMemories({type: 'active_brain'}) returns a brain with an id: it is
\* stored in the slot, the slot is drawn, the item saved and the slot
\* activated
SaveBrainReturns(slotId, id) ==
    /\ brain.saving[slotId]
    /\ LET stored == updateBrainSlotUI([brain EXCEPT !.brains[slotId] = id,
                                                     !.saving[slotId] = FALSE],
                                       slotId)
       IN  /\ savedBrains' = saveBrainsToStorage(stored)
           /\ brain' = [activateBrain(stored, slotId) EXCEPT !.activating = TRUE]
    /\ UNCHANGED <<coreVars, exceptBrainVars>>

\* retrieveMemories throws or returns no brain: an alert, nothing stored
SaveBrainFails(slotId) ==
    /\ brain.saving[slotId]
    /\ brain' = [brain EXCEPT !.saving[slotId] = FALSE]
    /\ UNCHANGED <<coreVars, exceptBrainVars, savedBrains>>

\* the sendMessage of activateBrain settles either way: saveBrainsToStorage()
ActivationSettles ==
    /\ brain.activating
    /\ brain' = [brain EXCEPT !.activating = FALSE]
    /\ savedBrains' = saveBrainsToStorage(brain)
    /\ UNCHANGED <<coreVars, exceptBrainVars>>

\* a right click on a slot that holds a brain: clearBrainSlot(slotId)
ContextMenu(slotId) ==
    /\ brain.isInitialized
    /\ brain.brains[slotId] # "null"
    /\ brain' = clearBrainSlot(brain, slotId)
    /\ savedBrains' = saveBrainsToStorage(brain')
    /\ UNCHANGED <<coreVars, exceptBrainVars>>

\* deactivateCurrentBrain() called with a slot active
DeactivateCurrentBrain ==
    /\ brain.isInitialized
    /\ brain.activeSlot # "null"
    /\ brain' = deactivateCurrentBrain(brain)
    /\ savedBrains' = saveBrainsToStorage(brain')
    /\ UNCHANGED <<coreVars, exceptBrainVars>>

(***************************************************************************)
(* Composio SDK ConnectionsAPI (part_004): isActive, waitUntilActive       *)
(***************************************************************************)
\* the clock is modelled up to MaxTime ticks; at MaxTime it stands for
\* "MaxTime or later"
MaxTime == 4
\* timeout and interval arguments, in ticks
MaxTimeout == 2
MaxInterval == 2
Timeouts == 0..MaxTimeout
Intervals == 1..MaxInterval

\* what the poll's GET /connections/{id} brings: a connection whose status
\* is 'active', one with another status, or a rejection
PollResults == {"active", "pending", "failed"}

WaitIdle == [pc |-> "idle", start |-> 0, timeout |-> 0, interval |-> 0,
             pollAt |-> 0, settledAt |-> -1, wakeAt |-> 0, endedAt |-> 0,
             polls |-> 0, last |-> "none"]

\* while (Date.now() - startTime < timeout)
LoopTest_Always(t, start, timeout) == TRUE

LoopTest(t, start, timeout) == t - start < timeout

\* isActive(): connection.status === 'active'; a rejected get() is caught
\* and gives false
isActive(result) == result = "active"

\* the head of the loop, reached at time t: either the next poll is sent or
\* the timeout error is thrown
LoopHead(w, t) ==
    IF LoopTest(t, w.start, w.timeout)
    THEN [w EXCEPT !.pc = "polling", !.pollAt = t, !.polls = Counted(@)]
    ELSE [w EXCEPT !.pc = "threw", !.endedAt = t]

\* waitUntilActive({connection_id, timeout, interval}) up to its first
\* await; the wait begins while its deadline is on the modelled clock
WaitUntilActive(timeout, interval) ==
    /\ waiting.pc \in {"idle", "returned", "threw"}
    /\ now + timeout <= MaxTime
    /\ waiting' = LoopHead([WaitIdle EXCEPT !.start = now,
                                            !.timeout = timeout,
                                            !.interval = interval], now)
    /\ UNCHANGED <<coreVars, exceptPollVars, now>>

\* await this.isActive(...) settles: true returns true, false starts the
\* setTimeout(resolve, interval)
IsActiveSettles(result) ==
    /\ waiting.pc = "polling"
    /\ waiting' = IF isActive(result)
                  THEN [waiting EXCEPT !.pc = "returned", !.last = result,
                                       !.settledAt = now, !.endedAt = now]
                  ELSE [waiting EXCEPT !.pc = "sleeping", !.last = result,
                                       !.settledAt = now,
                                       !.wakeAt = IF now + waiting.interval < MaxTime
                                                  THEN now + waiting.interval
                                                  ELSE MaxTime]
    /\ UNCHANGED <<coreVars, exceptPollVars, now>>

\* the timer resolves once the interval has passed and the loop test runs
TimerFires ==
    /\ waiting.pc = "sleeping"
    /\ now >= waiting.wakeAt
    /\ waiting' = LoopHead(waiting, now)
    /\ UNCHANGED <<coreVars, exceptPollVars, now>>

\* time passes
Tick ==
    /\ now < MaxTime
    /\ now' = now + 1
    /\ UNCHANGED <<coreVars, exceptPollVars, waiting>>

Init ==
    /\ connections = [a \in Apps |-> NoConnection]
    /\ tools = <<>>
    /\ composioTools = <<>>
    /\ pendingComposio = {}
    /\ lastRegister = NoRegister
    /\ calls = [s \in Slots |-> IdleCall]
    /\ mcpTools = {}
    /\ mcpCalls = [s \in Slots |-> McpIdle]
    /\ initialized = FALSE
    /\ toolCache = EmptyCache
    /\ getToolsCalls = [s \in Slots |-> GetToolsIdle]
    /\ forApps = ForAppsIdle
    /\ contextId = "none"
    /\ sends = [c \in Callers |-> SendIdle]
    /\ toolResponses = 0
    /\ listener = ListenerIdle
    /\ chat = ChatIdle
    /\ replies = <<>>
    /\ handlerRuns = [id \in AllToolCallIds |-> 0]
    /\ localStorage = NoItem
    /\ page = PageReady
    /\ eventListeners = <<>>
    /\ emitted = NoEmit
    /\ video = NoVideoCall
    /\ now = 0
    /\ waiting = WaitIdle
    /\ disconnecting = DisconnectIdle
    /\ integration = IntegrationNew
    /\ brain = BrainNew
    /\ savedBrains = NoBrainItem

\* the OAuth popup posts {type: 'composio_connection_success', app, connectionId}
\* to the listener of setupConnectionMessageListener, which stores the entry
\* and saves the table
ConnectionSuccess(app, connectionId) ==
    /\ page.pc = "ready"
    /\ connections' = [connections EXCEPT
            ![app] = [present |-> TRUE, connected |-> TRUE, id |-> connectionId]]
    /\ localStorage' = Stringify(connections')
    /\ UNCHANGED <<serviceVars, page, registryVars, calls, mcpVars, sourceVars>>

\* ComposioClient.disconnect whose backend deletion succeeds
Disconnect(app) ==
    /\ connections[app].present
    /\ connections[app].id # "none"
    /\ connections' = [connections EXCEPT ![app] = NoConnection]
    /\ localStorage' = Stringify(connections')
    /\ page' = [page EXCEPT !.wasConnected = @ \ {app}]
    /\ UNCHANGED <<serviceVars, registryVars, calls, mcpVars, sourceVars>>

\* the page is reloaded: every object is constructed anew, localStorage
\* stays
Reload ==
    /\ page.pc \in {"ready", "failed", "lazy"}
    /\ page' = [pc |-> "reloaded",
                wasConnected |-> IF page.pc = "ready"
                                 THEN {a \in Apps : isConnected(a)}
                                 ELSE page.wasConnected]
    /\ connections' = [a \in Apps |-> NoConnection]
    /\ tools' = <<>>
    /\ composioTools' = <<>>
    /\ pendingComposio' = {}
    /\ lastRegister' = NoRegister
    /\ calls' = [s \in Slots |-> IdleCall]
    /\ mcpTools' = {}
    /\ mcpCalls' = [s \in Slots |-> McpIdle]
    /\ initialized' = FALSE
    /\ toolCache' = EmptyCache
    /\ getToolsCalls' = [s \in Slots |-> GetToolsIdle]
    /\ forApps' = ForAppsIdle
    /\ contextId' = "none"
    /\ sends' = [c \in Callers |-> SendIdle]
    /\ toolResponses' = 0
    /\ listener' = ListenerIdle
    /\ chat' = ChatIdle
    /\ replies' = <<>>
    /\ handlerRuns' = [id \in AllToolCallIds |-> 0]
    /\ eventListeners' = <<>>
    /\ emitted' = NoEmit
    /\ video' = NoVideoCall
    /\ waiting' = WaitIdle
    /\ disconnecting' = DisconnectIdle
    /\ integration' = IntegrationNew
    /\ brain' = BrainNew
    /\ UNCHANGED <<localStorage, now, savedBrains>>

\* initializeConnectionHandlers() up to the await inside
\* composioClient.initialize()
InitializeConnectionHandlers ==
    /\ page.pc = "reloaded"
    /\ localStorage' = NoItem
    /\ page' = [page EXCEPT !.pc = "initializing"]
    /\ UNCHANGED <<serviceVars, brokerVars, mcpVars, sourceVars>>

\* composioClient.initialize() returns: after loadConnections() when the
\* SDK loaded (ok), with false when it did not
ClientInitializeReturns(ok) ==
    /\ page.pc = "initializing"
    /\ connections' = IF ok THEN loadConnections(localStorage) ELSE connections
    /\ page' = [page EXCEPT !.pc = IF ok THEN "ready" ELSE "failed"]
    /\ UNCHANGED <<serviceVars, localStorage, registryVars, calls, mcpVars,
                   sourceVars>>

RegisterTool(name, toolInstance) ==
    /\ Len(tools) < MaxTools \/ name \in RegisteredNames(tools)
    /\ tools' = registerTool(tools, name, toolInstance)
    /\ lastRegister' = [name |-> name, tool |-> toolInstance, before |-> tools]
    /\ UNCHANGED <<componentVars, connections, composioTools, pendingComposio, calls, mcpVars, sourceVars>>

\* registerComposioTool up to its await of composioAPI.getTools(appName)
RegisterComposioTool(appName) ==
    /\ composioAPI_isConnected(appName)
    /\ appName \notin pendingComposio
    /\ pendingComposio' = pendingComposio \cup {appName}
    /\ UNCHANGED <<componentVars, connections, tools, composioTools, lastRegister, calls, mcpVars, sourceVars>>

\* composioAPI.getTools(appName) resolves with toolList
ComposioToolsReturn(appName, toolList) ==
    /\ appName \in pendingComposio
    /\ composioTools' = ComposioSet(composioTools, appName, toolList)
    /\ pendingComposio' = pendingComposio \ {appName}
    /\ UNCHANGED <<componentVars, connections, tools, lastRegister, calls, mcpVars, sourceVars>>

\* composioAPI.getTools(appName) rejects: logged, nothing registered
ComposioToolsFail(appName) ==
    /\ appName \in pendingComposio
    /\ pendingComposio' = pendingComposio \ {appName}
    /\ UNCHANGED <<componentVars, connections, tools, composioTools, lastRegister, calls, mcpVars, sourceVars>>

\* handleToolCall up to its first await (or to its return when the tool is
\* not found)
HandleToolCall(s, name, id, args) ==
    /\ calls[s].pc = "idle"
    /\ LET target == ResolveTarget(name)
           req == [IdleCall EXCEPT !.name = name, !.id = id, !.args = args,
                       !.prefixConnected =
                           \E a \in Apps :
                               /\ connections[a].present
                               /\ connections[a].connected
                               /\ Len(name) > Len(a)
                               /\ SubSeq(name, 1, Len(a)) = a
                               /\ name[Len(a) + 1] = "_",
                       !.localAtCall =
                           IF \E k \in DOMAIN tools : tools[k].name = name
                           THEN tools[CHOOSE k \in DOMAIN tools :
                                          tools[k].name = name].tool
                           ELSE "none"]
       IN  calls' = [calls EXCEPT ![s] =
               CASE target = "connector" ->
                        [req EXCEPT !.pc = "executing", !.target = "connector",
                                    !.passedName = name, !.passed = PassedArgs(args)]
                 [] target = "local" ->
                        [req EXCEPT !.pc = "executing", !.target = "local",
                                    !.tool = ToolsGet(tools, name),
                                    !.passed = PassedArgs(args)]
                 [] OTHER ->
                        [req EXCEPT !.pc = "returned", !.failed = TRUE,
                                    !.result = Envelope(JsNull, id, ErrToolNotFound(name))]]
    /\ UNCHANGED <<componentVars, connections, registryVars, mcpVars, sourceVars>>

\* the catch blocks: {output: null, id, error: error.message}
Caught(call, e) ==
    IF MessageThrows(e)
    THEN [call EXCEPT !.pc = "threw", !.failed = TRUE]
    ELSE [call EXCEPT !.pc = "returned", !.failed = TRUE,
                      !.result = Envelope(JsNull, call.id, MessageOf(e))]

\* composioAPI.executeTool(name, args) resolves with result
ConnectorReturns(s, result) ==
    /\ calls[s].pc = "executing"
    /\ calls[s].target = "connector"
    /\ calls' = [calls EXCEPT ![s] =
            IF IsNullish(result)
            THEN Caught([calls[s] EXCEPT !.raw = result],
                        [t |-> "Error", m |-> TypeErrorMessage])
            ELSE [calls[s] EXCEPT !.pc = "returned", !.raw = result,
                      !.result = Envelope(ConnectorOutput(result), calls[s].id, ErrNull)]]
    /\ UNCHANGED <<componentVars, connections, registryVars, mcpVars, sourceVars>>

\* composioAPI.executeTool(name, args) rejects with e
ConnectorThrows(s, e) ==
    /\ calls[s].pc = "executing"
    /\ calls[s].target = "connector"
    /\ calls' = [calls EXCEPT ![s] = Caught(calls[s], e)]
    /\ UNCHANGED <<componentVars, connections, registryVars, mcpVars, sourceVars>>

\* tool.execute(args) resolves with result
LocalReturns(s, result) ==
    /\ calls[s].pc = "executing"
    /\ calls[s].target = "local"
    /\ calls' = [calls EXCEPT ![s] =
            [calls[s] EXCEPT !.pc = "returned", !.raw = result,
                             !.result = Envelope(result, calls[s].id, ErrNull)]]
    /\ UNCHANGED <<componentVars, connections, registryVars, mcpVars, sourceVars>>

\* tool.execute(args) throws e
LocalThrows(s, e) ==
    /\ calls[s].pc = "executing"
    /\ calls[s].target = "local"
    /\ calls' = [calls EXCEPT ![s] = Caught(calls[s], e)]
    /\ UNCHANGED <<componentVars, connections, registryVars, mcpVars, sourceVars>>

\* the caller (the LLM runtime) takes the settled promise
Collect(s) ==
    /\ calls[s].pc \in {"returned", "threw"}
    /\ calls' = [calls EXCEPT ![s] = IdleCall]
    /\ UNCHANGED <<componentVars, connections, registryVars, mcpVars, sourceVars>>

\* the environment of the broker: connections come and go, tools register
Environment ==
    \/ \E a \in Apps, c \in ConnectionIds : ConnectionSuccess(a, c)
    \/ \E a \in Apps : Disconnect(a)
    \/ \E n \in Names : RegisterTool(n, "t1")

\* the primary call path: calls are delivered and handled one at a time
Next ==
    \/ Environment
    \/ \E n \in Names, i \in Ids, a \in Args : HandleToolCall(1, n, i, a)
    \/ \E r \in Values : ConnectorReturns(1, r)
    \/ \E e \in Thrown : ConnectorThrows(1, e)
    \/ \E r \in Values : LocalReturns(1, r)
    \/ \E e \in Thrown : LocalThrows(1, e)
    \/ Collect(1)

Spec == Init /\ [][Next]_vars

\* several calls outstanding at once, over a reduced set of inputs
ConcNames == {<<"a", "_", "x">>, <<"x">>}
ConcValues == {Prim("undefined"), Obj("text")}
ConcThrown == {[t |-> "Error", m |-> "boom"], [t |-> "null", m |-> ""]}
ConcArgs == {[form |-> "object", obj |-> "o1"]}
McpConcArgs == {[form |-> "string", obj |-> "o1"], [form |-> "string", obj |-> "notjson"]}

\* both call paths with up to MaxCalls calls outstanding in all: a slot
\* holds one outstanding call, of either path
NextConcurrent ==
    \/ \E c \in ConnectionIds : ConnectionSuccess(<<"a">>, c)
    \/ Disconnect(<<"a">>)
    \/ RegisterTool(<<"x">>, "t1")
    \/ \E s \in Slots, n \in ConcNames, i \in Ids, a \in ConcArgs :
            mcpCalls[s].pc = "idle" /\ HandleToolCall(s, n, i, a)
    \/ \E s \in Slots, r \in ConcValues : ConnectorReturns(s, r)
    \/ \E s \in Slots, e \in ConcThrown : ConnectorThrows(s, e)
    \/ \E s \in Slots, r \in ConcValues : LocalReturns(s, r)
    \/ \E s \in Slots, e \in ConcThrown : LocalThrows(s, e)
    \/ \E s \in Slots : Collect(s)
    \/ McpRegisterTool(<<"x">>)
    \/ \E s \in Slots, n \in ConcNames, i \in Ids, a \in McpConcArgs :
            calls[s].pc = "idle" /\ McpHandleToolCall(s, n, i, a)
    \/ \E s \in Slots, r \in ConcValues : McpHandlerReturns(s, r)
    \/ \E s \in Slots, e \in ConcThrown : McpHandlerThrows(s, e)
    \/ \E s \in Slots : McpCollect(s)

SpecConcurrent == Init /\ [][NextConcurrent]_vars

\* the declaration registry: local tools and connector tools register
RegistryNames == {<<"x">>, <<"a", "_", "x">>, <<"A", "_", "x">>}

NextRegistry ==
    \/ \E c \in ConnectionIds : ConnectionSuccess(<<"a">>, c)
    \/ Disconnect(<<"a">>)
    \/ \E n \in RegistryNames, t \in ToolIds : RegisterTool(n, t)
    \/ RegisterComposioTool(<<"a">>)
    \/ \E l \in ConnectorToolLists : ComposioToolsReturn(<<"a">>, l)
    \/ ComposioToolsFail(<<"a">>)

SpecRegistry == Init /\ [][NextRegistry]_vars

\* the connector tool source and the connection table it consults: up to
\* MaxCalls overlapping getTools('a') calls
NextSource ==
    \/ \E c \in ConnectionIds : ConnectionSuccess(<<"a">>, c)
    \/ Disconnect(<<"a">>)
    \/ \E s \in Slots : GetTools(s, <<"a">>, <<>>, <<>>)
    \/ \E s \in Slots, ok \in BOOLEAN : InitializeReturns(s, ok)
    \/ \E s \in Slots, l \in ConnectorToolLists : FetchReturns(s, l)
    \/ \E s \in Slots : FetchThrows(s)
    \/ ClearCache
    \/ \E s \in Slots : GetToolsCollect(s)

SpecSource == Init /\ [][NextSource]_vars

\* getToolsForApps over two apps that connect and disconnect
NextForApps ==
    \/ \E a \in Apps, c \in ConnectionIds : ConnectionSuccess(a, c)
    \/ \E a \in Apps : Disconnect(a)
    \/ \E l \in AppNameLists : GetToolsForApps(l)
    \/ \E ok \in BOOLEAN : ForAppsInitializeReturns(ok)
    \/ \E s \in Slots, ok \in BOOLEAN : InitializeReturns(s, ok)
    \/ \E s \in Slots, l \in AggregateToolLists : FetchReturns(s, l)
    \/ \E s \in Slots : FetchThrows(s)
    \/ ForAppsResolves
    \/ \E i \in Slots : ForAppsRejects(i)
    \/ \E s \in Slots : forApps.pc # "waiting" /\ GetToolsCollect(s)
    \/ ForAppsCollect
    \/ ClearCache

SpecForApps == Init /\ [][NextForApps]_vars

\* batches of tool calls arriving in the responses to memory requests
NextBatch ==
    \/ McpRegisterTool(<<"x">>)
    \/ StoreMemory
    \/ \E c \in {"mem", "mcp"}, id \in {"ctx1"} : AdapterInitReturns(c, id)
    \/ \E c \in {"mem", "mcp"} : AdapterInitFails(c)
    \/ \E c \in {"mem", "mcp"}, n \in 0..MaxCalls : PostReturns(c, n)
    \/ \E c \in {"mem", "mcp"} : PostFails(c)
    \/ \E s \in Slots, r \in ConcValues : McpHandlerReturns(s, r)
    \/ \E s \in Slots, e \in ConcThrown : McpHandlerThrows(s, e)
    \/ ListenerResolves
    \/ \E i \in Slots : ListenerRejects(i)
    \/ \E s \in Slots : listener.pc # "running" /\ McpCollect(s)
    \/ MemoryCollect

SpecBatch == Init /\ [][NextBatch]_vars

\* the listener of MCPClient alone: tool_call batches arrive, their handlers
\* settle, the tool_results reply is sent
NextReply ==
    \/ McpRegisterTool(<<"x">>)
    \/ StoreMemory
    \/ \E c \in {"mem", "mcp"}, id \in {"ctx1"} : AdapterInitReturns(c, id)
    \/ \E c \in {"mem", "mcp"} : AdapterInitFails(c)
    \/ \E c \in {"mem", "mcp"}, n \in 0..MaxCalls : PostReturns(c, n)
    \/ \E c \in {"mem", "mcp"} : PostFails(c)
    \/ \E s \in Slots : McpHandlerReturns(s, Obj("text"))
    \/ \E s \in Slots, e \in ConcThrown : McpHandlerThrows(s, e)
    \/ ListenerResolves
    \/ \E i \in Slots : ListenerRejects(i)
    \/ \E s \in Slots : listener.pc # "running" /\ McpCollect(s)
    \/ MemoryCollect

SpecReply == Init /\ [][NextReply]_vars

\* a chat turn: the chat manager and the MCP client's listener share one
\* adapter
NextChat ==
    \/ McpRegisterTool(<<"x">>)
    \/ \E sender \in Senders : ChatHandleMessage(sender)
    \/ ChatStored
    \/ ChatCaught
    \/ ChatAnswered
    \/ ChatCallSettled
    \/ ChatReplied
    \/ \E c \in {"chat", "mcp"}, id \in {"ctx1"} : AdapterInitReturns(c, id)
    \/ \E c \in {"chat", "mcp"} : AdapterInitFails(c)
    \/ \E c \in {"chat", "mcp"}, n \in 0..(MaxCalls - 1) : PostReturns(c, n)
    \/ \E c \in {"chat", "mcp"} : PostFails(c)
    \/ \E s \in Slots, r \in {Obj("text")} : McpHandlerReturns(s, r)
    \/ \E s \in Slots, e \in {[t |-> "Error", m |-> "boom"]} :
            McpHandlerThrows(s, e)
    \/ ListenerResolves

SpecChat == Init /\ [][NextChat]_vars

\* the chat manager with the listener of MCPClient, every response carrying
\* at most one tool call
NextTurn ==
    \/ McpRegisterTool(<<"x">>)
    \/ \E sender \in Senders : ChatHandleMessage(sender)
    \/ ChatStored
    \/ ChatCaught
    \/ ChatAnswered
    \/ ChatCallSettled
    \/ ChatReplied
    \/ \E c \in {"chat", "mcp"}, id \in {"ctx1"} : AdapterInitReturns(c, id)
    \/ \E c \in {"chat", "mcp"} : AdapterInitFails(c)
    \/ \E c \in {"chat", "mcp"}, n \in 0..1 : PostReturns(c, n)
    \/ \E c \in {"chat", "mcp"} : PostFails(c)
    \/ \E s \in Slots : McpHandlerReturns(s, Obj("text"))
    \/ \E s \in Slots : McpHandlerThrows(s, [t |-> "Error", m |-> "boom"])
    \/ ListenerResolves

SpecTurn == Init /\ [][NextTurn]_vars

\* the memory bridge over the adapter
NextMemory ==
    \/ StoreMemory
    \/ \E o \in OptionObjects : RetrieveMemories(o)
    \/ \E id \in ContextIds : AdapterInitReturns("mem", id)
    \/ AdapterInitFails("mem")
    \/ PostReturns("mem", 0)
    \/ PostFails("mem")
    \/ MemoryCollect

SpecMemory == Init /\ [][NextMemory]_vars

ReloadConnectionIds == {"c1", "c2"}

\* connections, disconnections and page reloads, with getTools asking for
\* the tools of app a
NextReload ==
    \/ \E a \in Apps, c \in ReloadConnectionIds : ConnectionSuccess(a, c)
    \/ \E a \in Apps : Disconnect(a)
    \/ Reload
    \/ InitializeConnectionHandlers
    \/ \E ok \in BOOLEAN : ClientInitializeReturns(ok)
    \/ \E l \in ActionLists, t \in TagLists : GetTools(1, <<"a">>, l, t)
    \/ \E ok \in BOOLEAN : InitializeReturns(1, ok)
    \/ \E l \in ConnectorToolLists : FetchReturns(1, l)
    \/ FetchThrows(1)
    \/ GetToolsCollect(1)

SpecReload == Init /\ [][NextReload]_vars

\* listeners coming, going and being called
NextEvents ==
    \/ \E l \in Listeners : addEventListener(l)
    \/ \E l \in Listeners : removeEventListener(l)
    \/ emitEvent

SpecEvents == Init /\ [][NextEvents]_vars

\* the responses of the video backend
NextVideo == \E r \in VertexResponses : ProcessVertexResponse(r)

SpecVideo == Init /\ [][NextVideo]_vars

\* waits for a connection to become active while time passes
NextWait ==
    \/ \E t \in Timeouts, i \in Intervals : WaitUntilActive(t, i)
    \/ \E r \in PollResults : IsActiveSettles(r)
    \/ TimerFires
    \/ Tick

\* time passes, every request of a poll settles (fetch resolves or rejects)
\* and a timer that is due fires
SpecWait ==
    /\ Init /\ [][NextWait]_vars
    /\ WF_vars(Tick)
    /\ WF_vars(\E r \in PollResults : IsActiveSettles(r))
    /\ WF_vars(TimerFires)

\* the memory bridge and the chat manager sending over one adapter, the
\* backend handing out a context per /init
NextContext ==
    \/ StoreMemory
    \/ MemoryCollect
    \/ \E sender \in Senders : ChatHandleMessage(sender)
    \/ ChatStored
    \/ ChatCaught
    \/ ChatAnswered
    \/ \E c \in {"mem", "chat"}, id \in ContextIds : AdapterInitReturns(c, id)
    \/ \E c \in {"mem", "chat"} : AdapterInitFails(c)
    \/ \E c \in {"mem", "chat"} : PostReturns(c, 0)
    \/ \E c \in {"mem", "chat"} : PostFails(c)

SpecContext == Init /\ [][NextContext]_vars

\* getTools('a', actions, tags) under filters whose names contain the
\* separator of the cache key
KeyActionLists == {<<(<<"x">>)>>, <<(<<"x", "_", "y">>)>>}
KeyTagLists == {<<(<<"z">>)>>, <<(<<"y", "_", "z">>)>>}

NextKeys ==
    \/ \E c \in {"c1"} : ConnectionSuccess(<<"a">>, c)
    \/ \E s \in Slots, l \in KeyActionLists, t \in KeyTagLists :
            GetTools(s, <<"a">>, l, t)
    \/ \E s \in Slots : InitializeReturns(s, TRUE)
    \/ \E s \in Slots : FetchReturns(s, <<"a_send">>)
    \/ \E s \in Slots : GetToolsCollect(s)

SpecKeys == Init /\ [][NextKeys]_vars

\* connections made and disconnected on a page that is reloaded, the
\* disconnection step by step
NextDisconnect ==
    \/ \E a \in Apps, c \in ReloadConnectionIds : ConnectionSuccess(a, c)
    \/ \E a \in Apps : DisconnectStart(a)
    \/ \E ok \in BOOLEAN : DisconnectInitReturns(ok)
    \/ DeleteReturns
    \/ DeleteFails
    \/ DisconnectCollect
    \/ Reload
    \/ InitializeConnectionHandlers
    \/ \E ok \in BOOLEAN : ClientInitializeReturns(ok)

SpecDisconnect == Init /\ [][NextDisconnect]_vars

\* the startup script and later callers initializing the integration
NextIntegration ==
    \/ \E v \in Invocations : IntegrationInitialize(v, v # "later")
    \/ \E v \in Invocations : IntegrationAdapterReady(v)
    \/ \E v \in Invocations : IntegrationCaught(v)
    \/ \E v \in Invocations : IntegrationRegistered(v)
    \/ \E v \in Invocations : IntegrationEnhanced(v)

SpecIntegration == Init /\ [][NextIntegration]_vars

\* the brain slots being clicked on a page that is reloaded
NextBrain ==
    \/ BrainInitialize
    \/ \E slot \in BrainSlots : ClickSlot(slot)
    \/ \E slot \in BrainSlots, id \in BrainIds : SaveBrainReturns(slot, id)
    \/ \E slot \in BrainSlots : SaveBrainFails(slot)
    \/ ActivationSettles
    \/ \E slot \in BrainSlots : ContextMenu(slot)
    \/ DeactivateCurrentBrain
    \/ Reload
    \/ InitializeConnectionHandlers
    \/ \E ok \in BOOLEAN : ClientInitializeReturns(ok)

SpecBrain == Init /\ [][NextBrain]_vars

TypeOK == \A s \in Slots : calls[s].pc \in {"idle", "executing", "returned", "threw"}

(***************************************************************************)
(* Claims                                                                  *)
(***************************************************************************)
\* name matches ^[a-z]+_ : some non-empty run of lowercase letters from the
\* start is followed by an underscore
MatchesPrefixPattern(name) ==
    \E k \in 1..(Len(name) - 1) :
        /\ \A i \in 1..k : name[i] \in Lower
        /\ name[k + 1] = "_"

Populated(value) == value \notin {JsNull, JsUndefined}
PopulatedError(error) == error.t \notin {"null", "undefined"}

\* result.output ?? result
NullishCoalesce(result) ==
    IF Populated(OutputOf(result)) THEN OutputOf(result) ELSE result

\* C1: handleToolCall never throws to its caller, and every failed call (tool
\* not found, execute() threw, connector execution threw) is returned as an
\* envelope with output = null, the request's id and a non-null error message.
C1_NeverThrows ==
    \A s \in Slots :
        /\ calls[s].pc # "threw"
        /\ (calls[s].pc = "returned" /\ calls[s].failed) =>
               /\ calls[s].result.output = JsNull
               /\ calls[s].result.id = calls[s].id
               /\ calls[s].result.error.t = "message"

\* C2: a call whose name matches ^[a-z]+_ while the prefix app is not
\* connected never reaches the connector executor: it goes to the local tool
\* of that name, and with no such tool registered it returns
\* {output: null, id, error: "Tool not found: <name>"}.
C2_UnconnectedPrefixGoesLocal ==
    \A s \in Slots :
        (/\ calls[s].pc # "idle"
         /\ MatchesPrefixPattern(calls[s].name)
         /\ ~calls[s].prefixConnected) =>
            /\ calls[s].target # "connector"
            /\ calls[s].passedName = <<>>
            /\ calls[s].localAtCall = "none" =>
                   /\ calls[s].pc = "returned"
                   /\ calls[s].target = "none"
                   /\ calls[s].result =
                          [output |-> JsNull, id |-> calls[s].id,
                           error |-> ErrToolNotFound(calls[s].name)]
            /\ calls[s].localAtCall # "none" =>
                   /\ calls[s].target = "local"
                   /\ calls[s].tool = calls[s].localAtCall

\* C2 witness: a call named a_x (or ab_x) has returned "Tool not found" while
\* its prefix app was not connected and no local tool had that name.
C2_Witness ==
    \E s \in Slots :
        /\ calls[s].pc = "returned"
        /\ MatchesPrefixPattern(calls[s].name)
        /\ ~calls[s].prefixConnected
        /\ calls[s].localAtCall = "none"
        /\ calls[s].result.error = ErrToolNotFound(calls[s].name)

\* C3: a call whose name matches ^[a-z]+_ and whose prefix app is connected
\* when the call arrives goes to the connector executor with the full call
\* name and the arguments; no local tool is looked up or executed, even when
\* one is registered under that exact name.
C3_ConnectedPrefixGoesToConnector ==
    \A s \in Slots :
        (calls[s].pc # "idle" /\ calls[s].prefixConnected) =>
            /\ calls[s].target = "connector"
            /\ calls[s].passedName = calls[s].name
            /\ calls[s].passed = calls[s].args
            /\ calls[s].tool = "none"

\* C3 witness: a connector-routed call has returned although a local tool
\* was registered under its exact name.
C3_Witness ==
    \E s \in Slots :
        /\ calls[s].pc = "returned"
        /\ calls[s].prefixConnected
        /\ calls[s].localAtCall # "none"
        /\ calls[s].target = "connector"

\* C4: a successful connector execution returning result yields
\* {output: result.output ?? result, id, error: null}; a falsy result.output
\* that is neither null nor undefined is still the output.
C4_NullishCoalescedOutput ==
    \A s \in Slots :
        (/\ calls[s].pc = "returned"
         /\ calls[s].target = "connector"
         /\ ~calls[s].failed) =>
            calls[s].result =
                [output |-> NullishCoalesce(calls[s].raw), id |-> calls[s].id,
                 error |-> ErrNull]

\* C5: every result envelope has exactly one of output / error populated: a
\* successful call a populated output and no error, a failed call a
\* populated error and no output, whatever execute() or a handler returned.
C5_ExactlyOnePopulated ==
    \A s \in Slots :
        /\ calls[s].pc = "returned" =>
               /\ Populated(calls[s].result.output)
                      # PopulatedError(calls[s].result.error)
               /\ calls[s].failed = PopulatedError(calls[s].result.error)
        /\ mcpCalls[s].pc = "returned" =>
               /\ Populated(mcpCalls[s].result.result)
                      # PopulatedError(mcpCalls[s].result.error)
               /\ (mcpCalls[s].result.status = "error")
                      = PopulatedError(mcpCalls[s].result.error)

\* C6: every result echoes the id of the request that produced it, on every
\* outcome and on both call paths, whatever other calls are outstanding.
C6_ResultEchoesRequestId ==
    \A s \in Slots :
        /\ calls[s].pc = "returned" => calls[s].result.id = calls[s].id
        /\ mcpCalls[s].pc = "returned" =>
               mcpCalls[s].result.toolCallId = mcpCalls[s].id

\* C6 witness: a failed broker call and a personalization-path call have
\* both returned, with different ids, while both were outstanding.
C6_Witness ==
    \E s, t \in Slots :
        /\ s # t
        /\ calls[s].pc = "returned"
        /\ calls[s].failed
        /\ mcpCalls[t].pc = "returned"
        /\ calls[s].id # mcpCalls[t].id
        /\ calls[s].result.id = calls[s].id
        /\ mcpCalls[t].result.toolCallId = mcpCalls[t].id

\* C7: whether the arguments arrive as an object or as the JSON text of an
\* object, the executor (local execute(), connector executor, handler)
\* receives the decoded object.
C7_ExecutorReceivesDecodedArgs ==
    \A s \in Slots :
        /\ (calls[s].target \in {"connector", "local"}
                /\ calls[s].args.obj # "notjson") =>
               calls[s].passed = [form |-> "object", obj |-> calls[s].args.obj]
        /\ mcpCalls[s].invoked =>
               mcpCalls[s].passed = [form |-> "object", obj |-> mcpCalls[s].args.obj]

\* C8: registerTool(name, tool) with a name already in the registry changes
\* nothing: the registry is what it was before the call, so the name still
\* maps to the tool registered first.
C8_ReRegisterIsNoOp ==
    (\E i \in DOMAIN lastRegister.before :
         lastRegister.before[i].name = lastRegister.name)
        => tools = lastRegister.before

\* C8 witness: a name was registered again with a different tool instance.
C8_Witness ==
    \E i \in DOMAIN lastRegister.before :
        /\ lastRegister.before[i].name = lastRegister.name
        /\ lastRegister.before[i].tool # lastRegister.tool
        /\ ToolsGet(tools, lastRegister.name) = lastRegister.before[i].tool

\* C9: for every registered local tool that declares a name,
\* getToolDeclarations() holds exactly one entry of that name.
C9_OneDeclarationPerTool ==
    LET decls == getToolDeclarations(tools, composioTools)
    IN  \A i \in DOMAIN tools :
            DeclaredName(tools[i].tool) # "none" =>
                Cardinality({j \in DOMAIN decls :
                                 decls[j] = DeclaredName(tools[i].tool)}) = 1

\* C10 as stated: getTools fails with the not-connected error, calls no
\* backend and returns no cached list whenever the app is not connected at
\* the time of the call.
C10_NotConnectedAtCallFails ==
    \A s \in Slots :
        (/\ getToolsCalls[s].pc \in {"fetching", "returned", "threw"}
         /\ ~getToolsCalls[s].connectedAtCall) =>
            /\ getToolsCalls[s].pc = "threw"
            /\ getToolsCalls[s].error = "Not connected"
            /\ ~getToolsCalls[s].backendCalled
            /\ ~getToolsCalls[s].fromCache

\* C10 amended: getTools fails with the not-connected error, calls no
\* backend and returns no cached list whenever the app is not connected when
\* its connection check runs (at the call itself once the manager is
\* initialized, after the awaited initialize() otherwise), also when the key
\* is cached.
C10_NotConnectedAtCheckFails ==
    \A s \in Slots :
        (/\ getToolsCalls[s].pc \in {"fetching", "returned", "threw"}
         /\ ~getToolsCalls[s].connectedAtCheck) =>
            /\ getToolsCalls[s].pc = "threw"
            /\ getToolsCalls[s].error = "Not connected"
            /\ ~getToolsCalls[s].backendCalled
            /\ ~getToolsCalls[s].fromCache
            /\ getToolsCalls[s].result = <<>>

\* C10 witness: getTools has thrown "Not connected" for an unconnected app
\* whose key was in the cache, filled while the app was connected.
C10_Witness ==
    \E s \in Slots :
        /\ getToolsCalls[s].pc = "threw"
        /\ getToolsCalls[s].error = "Not connected"
        /\ ~getToolsCalls[s].connectedAtCheck
        /\ getToolsCalls[s].cachedAtCheck
        /\ toolCache[CacheKey(getToolsCalls[s].app, getToolsCalls[s].actions,
                               getToolsCalls[s].tags)] # <<>>

\* the connection check of the getTools call in slot s runs in this step
CheckRuns(s) ==
    /\ getToolsCalls[s].pc \in {"idle", "initializing"}
    /\ getToolsCalls'[s].pc \in {"fetching", "returned", "threw"}

KeyOf(call) == CacheKey(call.app, call.actions, call.tags)

\* C11: for a connected app, a getTools call that follows a completed call
\* for the same key returns the very list that call cached, without calling
\* the backend again; the list a backend call resolves to is what the cache
\* then holds for the key; clearCache() empties the cache, and a call whose
\* key is not cached makes one backend call.
C11_CachedUntilCleared ==
    [][/\ \A s \in Slots :
            (CheckRuns(s) /\ getToolsCalls'[s].connectedAtCheck) =>
                IF KeyOf(getToolsCalls'[s]) \in DOMAIN toolCache
                THEN /\ getToolsCalls'[s].pc = "returned"
                     /\ getToolsCalls'[s].result = toolCache[KeyOf(getToolsCalls'[s])]
                     /\ ~getToolsCalls'[s].backendCalled
                     /\ toolCache' = toolCache
                ELSE /\ getToolsCalls'[s].pc = "fetching"
                     /\ getToolsCalls'[s].backendCalled
                     /\ toolCache' = toolCache
       /\ \A s \in Slots :
            (getToolsCalls[s].pc = "fetching" /\ getToolsCalls'[s].pc = "returned") =>
                /\ KeyOf(getToolsCalls[s]) \in DOMAIN toolCache'
                /\ toolCache'[KeyOf(getToolsCalls[s])] = getToolsCalls'[s].result
       /\ ClearCache => toolCache' = EmptyCache
      ]_vars

\* C11 witness: one call has fetched a non-empty list for app a with no
\* filters, and a second call for the same key has returned that list from
\* the cache without a backend call.
C11_Witness ==
    \E s, t \in Slots :
        /\ s # t
        /\ getToolsCalls[s].pc = "returned" /\ getToolsCalls[s].backendCalled
        /\ getToolsCalls[s].actions = <<>> /\ getToolsCalls[s].tags = <<>>
        /\ getToolsCalls[s].result # <<>>
        /\ getToolsCalls[t].pc = "returned" /\ getToolsCalls[t].fromCache
        /\ ~getToolsCalls[t].backendCalled
        /\ KeyOf(getToolsCalls[t]) = KeyOf(getToolsCalls[s])
        /\ getToolsCalls[t].result = getToolsCalls[s].result
        /\ toolCache[KeyOf(getToolsCalls[t])] = getToolsCalls[t].result

\* C12: a tool-cache entry, once written, is neither removed nor replaced by
\* any step other than clearCache(): every other step leaves each existing
\* entry as it was.
C12_OnlyClearCacheTouchesEntries ==
    [][ClearCache \/
       \A k \in DOMAIN toolCache :
            k \in DOMAIN toolCache' /\ toolCache'[k] = toolCache[k]]_vars

\* C13: getToolsForApps never fails because an app is unconnected, and what
\* it returns is the concatenation, in the order of appNames, of the tool
\* list of each app that was connected, an unconnected app contributing
\* nothing.
C13_NeverFailsForUnconnectedApp ==
    /\ ~(forApps.pc = "threw" /\ forApps.error = "Not connected")
    /\ forApps.pc = "returned" =>
            /\ \A i \in DOMAIN forApps.appNames :
                    ~forApps.connectedAtMap[i] => forApps.toolArrays[i] = <<>>
            /\ forApps.result = Flat(forApps.toolArrays)

\* the tool_results messages posted in answer to response rid
RepliesTo(log, rid) == {j \in DOMAIN log : log[j].rid = rid}

\* C14: a batch of N tool calls yields exactly one tool_results reply with
\* N entries, entry i answering call i; the entry of a call whose handler
\* threw has status "error", the entry of a call whose handler returned has
\* status "success" and carries what the handler returned.
C14_OneReplyPerBatch ==
    [][/\ \A rid \in 1..MaxToolResponses :
            Cardinality(RepliesTo(replies', rid)) <= 1
       /\ (listener.pc = "running" /\ listener'.pc # "running") =>
            /\ listener'.pc = "sending"
            /\ Len(replies') = Len(replies) + 1
            /\ LET reply == replies'[Len(replies')]
               IN  /\ reply.rid = listener.rid
                   /\ Len(reply.results) = listener.n
                   /\ \A i \in 1..listener.n :
                        /\ reply.results[i].toolCallId = ToolCallId(listener.rid, i)
                        /\ mcpCalls[i].outcome = "threw" =>
                                reply.results[i].status = "error"
                        /\ mcpCalls[i].outcome = "returned" =>
                                reply.results[i].status = "success"
      ]_vars

\* C15: each tool call of a response has its handler invoked at most once,
\* and at most one tool_results message is sent back for the response, also
\* when the chat manager obtains the response through the adapter the MCP
\* client listens on.
C15_HandledOncePerResponse ==
    /\ \A id \in AllToolCallIds : handlerRuns[id] <= 1
    /\ \A rid \in 1..MaxToolResponses : Cardinality(RepliesTo(replies, rid)) <= 1

\* the expected options object: the four defaults, overridden by
\* the fields the caller supplied
DefaultsOverriddenBy(given) ==
    [f \in DOMAIN DefaultOptions \cup DOMAIN given |->
        IF f \in DOMAIN given THEN given[f] ELSE DefaultOptions[f]]

\* C16: the options retrieveMemories sends are the defaults limit = 10,
\* offset = 0, sortBy = "timestamp", sortDirection = "desc" overridden by
\* exactly the fields the caller supplied.
C16_DefaultsOverriddenBySupplied ==
    (/\ sends["mem"].msg.action = "retrieve"
     /\ sends["mem"].posts > 0) =>
        sends["mem"].msg.options = DefaultsOverriddenBy(sends["mem"].given)

\* C16 witness: retrieveMemories(query, {limit: 5}) has posted limit 5 with
\* the three other defaults.
C16_Witness ==
    /\ sends["mem"].msg.action = "retrieve"
    /\ sends["mem"].pc = "posting"
    /\ DOMAIN sends["mem"].given = {"limit"}
    /\ sends["mem"].given["limit"] = "5"
    /\ sends["mem"].msg.options["limit"] = "5"
    /\ sends["mem"].msg.options["offset"] = "0"
    /\ sends["mem"].msg.options["sortBy"] = "timestamp"
    /\ sends["mem"].msg.options["sortDirection"] = "desc"

\* C17: one storeMemory call issues the store request at most once: a call
\* that returned issued it once, a call that failed did not issue it again.
C17_StoreRequestAtMostOnce ==
    sends["mem"].msg.action = "store" =>
        /\ sends["mem"].posts <= 1
        /\ sends["mem"].pc \in {"posting", "returned"} => sends["mem"].posts = 1
        /\ sends["mem"].pc = "initializing" => sends["mem"].posts = 0

\* C17 witness: a storeMemory call has failed after its one store request.
C17_Witness ==
    /\ sends["mem"].msg.action = "store"
    /\ sends["mem"].pc = "threw"
    /\ sends["mem"].posts = 1

\* C18: a connection that existed when the page was reloaded and has not
\* been disconnected since is there again once the startup sequence has
\* run: isConnected(app) is true for it.
C18_ConnectionSurvivesReload ==
    page.pc = "ready" => \A a \in page.wasConnected : isConnected(a)

\* C19: emitEvent invokes every listener registered for the event once, in
\* registration order, whatever any of them throws, and does not throw.
C19_EveryListenerRuns ==
    emitted.called => (emitted.log = emitted.registered /\ ~emitted.threw)

\* C19 witness: emitEvent has run three listeners of which the first threw
\* an Error and the second threw null.
C19_Witness ==
    /\ emitted.called
    /\ emitted.registered = <<"throws", "throwsNull", "returns">>
    /\ emitted.log = <<"throws", "throwsNull", "returns">>
    /\ ~emitted.threw

\* a part that contains a video.uri field holding a URI
HasVideoUri(part) == part.video /\ part.uri \notin {"absent", ""}

\* C20: the URI extracted is the video.uri of the first part that contains
\* a video.uri field, and the extraction fails only when no part contains
\* one.
C20_FirstPartWithVideoUri ==
    video.called =>
        LET parts == video.response.parts
            withUri == {i \in DOMAIN parts : HasVideoUri(parts[i])}
        IN  IF withUri = {}
            THEN ~video.out.ok
            ELSE /\ video.out.ok
                 /\ video.out.videoUrl =
                        parts[CHOOSE i \in withUri : \A j \in withUri : i <= j].uri

\* the wait has ended: it returned true or threw the timeout error
WaitEnded == waiting.pc \in {"returned", "threw"}

\* C21: waitUntilActive never waits indefinitely: a wait that has begun ends;
\* it returns true only after a poll found the connection active, it throws
\* only at a time when the timeout has elapsed, a poll that failed leaves the
\* wait going, and a poll sent on the modelled clock starts at least the
\* interval after the previous one settled.
C21_WaitIsBounded ==
    /\ [](waiting.pc = "returned" => waiting.last = "active")
    /\ [](waiting.pc = "threw" => waiting.endedAt - waiting.start >= waiting.timeout)
    /\ [](waiting.last = "failed" => waiting.pc # "returned")
    /\ []((waiting.pc = "polling" /\ waiting.polls > 1 /\ waiting.pollAt < MaxTime) =>
              waiting.pollAt - waiting.settledAt >= waiting.interval)
    /\ ((waiting.pc \in {"polling", "sleeping"}) ~> WaitEnded)

\* a wait threw the timeout error after a poll that failed and a later poll
C21_Witness ==
    /\ waiting.pc = "threw"
    /\ waiting.polls > 1
    /\ waiting.last = "failed"

\* the sendMessage invocations whose POST /message has been issued
Posted == {c \in Callers : sends[c].posts > 0}

\* C22: every message goes out over one contextId: no POST /message carries
\* an unset contextId, and all the messages posted carry the same contextId,
\* also when several sendMessage calls began before the first initialize()
\* had completed.
C22_OneContextId ==
    /\ \A c \in Posted : sends[c].ctx # "none"
    /\ \A c, d \in Posted : sends[c].ctx = sends[d].ctx

\* the response whose batch tool call id belongs to
BatchOf(id) == {rid \in 1..MaxToolResponses :
                    \E i \in 1..MaxCalls : id = ToolCallId(rid, i)}

\* C23: when the listener comes to await its batch every call of the batch
\* has been started, and there is no tool_results reply to a batch one of
\* whose calls is still outstanding.
C23_ReplyAfterWholeBatch ==
    /\ listener.pc = "running" =>
            \A s \in 1..listener.n :
                /\ mcpCalls[s].pc # "idle"
                /\ mcpCalls[s].id = ToolCallId(listener.rid, s)
    /\ \A s \in Slots :
            mcpCalls[s].pc = "executing" =>
                \A rid \in BatchOf(mcpCalls[s].id) : RepliesTo(replies, rid) = {}

\* a reply to a batch of MaxCalls calls, one of which failed
C23_Witness ==
    \E j \in DOMAIN replies :
        /\ Len(replies[j].results) = MaxCalls
        /\ \E i \in DOMAIN replies[j].results : replies[j].results[i].status = "error"
        /\ \E i \in DOMAIN replies[j].results : replies[j].results[i].status = "success"

\* C24: MCPClient.handleToolCall never throws: a call naming an unregistered
\* handler, a call whose string arguments are not JSON and a call whose
\* handler threw return {toolCallId, name, status: "error", error}; a call
\* whose handler returned has status "success" with the handler's result,
\* the handler having been given the decoded object.
C24_McpFailuresAreResults ==
    \A s \in Slots :
        /\ mcpCalls[s].pc # "threw"
        /\ mcpCalls[s].pc = "returned" =>
            LET call == mcpCalls[s]
            IN  /\ call.result.toolCallId = call.id
                /\ call.result.name = call.name
                /\ (~call.invoked \/ call.outcome = "threw") =>
                        /\ call.result.status = "error"
                        /\ PopulatedError(call.result.error)
                /\ call.outcome = "returned" =>
                        /\ call.result.status = "success"
                        /\ call.passed = [form |-> "object", obj |-> call.args.obj]

\* C25: the cache never holds a torn entry: in every step each entry of the
\* cache is either the entry it was or the whole list that a backend call
\* for that key has returned in that step, and a backend call that fails
\* leaves the cache as it was, whatever getTools and clearCache calls
\* overlap.
C25_CacheEntriesAreWhole ==
    [][/\ \A k \in DOMAIN toolCache' :
            \/ k \in DOMAIN toolCache /\ toolCache'[k] = toolCache[k]
            \/ \E s \in Slots :
                    /\ getToolsCalls[s].pc = "fetching"
                    /\ getToolsCalls'[s].pc = "returned"
                    /\ KeyOf(getToolsCalls[s]) = k
                    /\ getToolsCalls'[s].result \in ConnectorToolLists
                    /\ toolCache'[k] = getToolsCalls'[s].result
       /\ (\E s \in Slots : /\ getToolsCalls[s].pc = "fetching"
                            /\ getToolsCalls'[s].pc = "threw") =>
                toolCache' = toolCache
      ]_vars

\* one backend call has failed while the cache holds the non-empty list that
\* an overlapping call fetched
C25_Witness ==
    \E s, t \in Slots :
        /\ s # t
        /\ getToolsCalls[s].pc = "threw" /\ getToolsCalls[s].error = "backend"
        /\ getToolsCalls[t].pc = "returned" /\ getToolsCalls[t].backendCalled
        /\ getToolsCalls[t].result # <<>>
        /\ KeyOf(getToolsCalls[t]) \in DOMAIN toolCache
        /\ toolCache[KeyOf(getToolsCalls[t])] = getToolsCalls[t].result

\* the (appName, actions, tags) triple of a getTools call
TripleOf(call) == <<call.app, call.actions, call.tags>>

\* C26: getTools calls with different (appName, actions, tags) triples have
\* different cache keys, so that none of them can be answered from the
\* entry of another.
C26_DistinctTriplesDistinctKeys ==
    \A s, t \in Slots :
        (/\ getToolsCalls[s].pc # "idle"
         /\ getToolsCalls[t].pc # "idle"
         /\ TripleOf(getToolsCalls[s]) # TripleOf(getToolsCalls[t])) =>
            KeyOf(getToolsCalls[s]) # KeyOf(getToolsCalls[t])

\* a step of the disconnect call, the page staying
DisconnectStep == disconnecting' # disconnecting /\ ~Reload

\* the disconnect call returns in this step
DisconnectReturns ==
    disconnecting.pc # "returned" /\ disconnecting'.pc = "returned"

C28_OneMessageAtATime ==
    /\ [][/\ \A sender \in Senders :
                (chat.pc # "idle" /\ ChatHandleMessage(sender)) =>
                    /\ sends' = sends
                    /\ replies' = replies
                    /\ [chat' EXCEPT !.dropped = 0] = [chat EXCEPT !.dropped = 0]
          /\ (chat.pc = "idle" /\ ChatHandleMessage("user")) =>
                /\ chat'.pc = "storing"
                /\ sends'["chat"].msg.action = "store"
         ]_vars
    /\ [](chat.pc \in {"storing", "asking", "replying"} => sends["chat"].pc # "idle")
    /\ [](chat.pc = "calling" => mcpCalls[ChatSlot].pc # "idle")
    /\ [](chat.pc = "idle" => sends["chat"].pc = "idle")

\* a user message was dropped while the reply of an earlier one was being
\* sent
C28_Witness ==
    /\ chat.pc = "replying"
    /\ chat.dropped > 0

\* the invocations that have created an adapter and have not failed
SettingUp ==
    {v \in Invocations :
        /\ integration.calls[v].created
        /\ ~(integration.calls[v].pc = "returned" /\ ~integration.calls[v].result)}

\* C29: the integration is set up at most once: of the invocations of
\* initialize at most one that has not failed has created an adapter and at
\* most one has registered the Veo2 tools, also when invocations overlap; an
\* invocation that has returned false has not set initialized.
C29_SetUpAtMostOnce ==
    /\ Cardinality(SettingUp) <= 1
    /\ Cardinality({v \in SettingUp : integration.calls[v].registered}) <= 1
    /\ integration.initialized =>
            \E v \in Invocations : /\ integration.calls[v].created
                                   /\ integration.calls[v].pc = "returned"
                                   /\ integration.calls[v].result

\* C30: the slot whose element carries the active mark is exactly the slot
\* recorded in activeSlot, so at most one slot carries it, and activeSlot is
\* null or names a slot that holds a saved brain.
C30_ActiveMarkIsActiveSlot ==
    /\ \A slot \in BrainSlots : brain.active[slot] <=> (brain.activeSlot = slot)
    /\ brain.activeSlot # "null" => brain.brains[brain.activeSlot] # "null"
====
